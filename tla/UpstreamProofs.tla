--------------------------- MODULE UpstreamProofs ---------------------------
(***************************************************************************)
(* The upstream manager's reference counts, late dials and shutdown, for   *)
(* any number of identities, generations, sessions and operations.         *)
(***************************************************************************)
EXTENDS Upstream, FiniteSetTheorems, TLAPS

USE UpstreamAssumption

-----------------------------------------------------------------------------
(* The inductive invariant. *)

\* A generation's count is the number of those that hold it.
Counted ==
    \A g \in Gen : /\ IsFiniteSet(SessionsOf(g)) /\ IsFiniteSet(OpsOf(g))
                   /\ gens[g].refs = Holders(g)

\* Handles and operations hold nothing before they are used, a generation that
\* was not created is untouched, and the index leads to referenced generations
\* of the binding.
Shape ==
    /\ \A s \in Session : sess[s].st = "none" => sess[s].gens = {}
    /\ \A o \in Op : ops[o].pc # "none" => ops[o].gen \in Gen
    /\ \A g \in Gen : gens[g].binding = None => gens[g].refs = 0 /\ gens[g].closing = "no"
    /\ \A b \in Binding : index[b] # None =>
          gens[index[b]].refs > 0 /\ gens[index[b]].binding = b

\* Retirement begins at the last reference, or with the manager's end.
RetiredUnused == \A g \in Gen : ~closed /\ gens[g].refs > 0 => gens[g].closing = "no"

\* A worker's caller is waiting for it or has given up.
Dials ==
    /\ ConnectionsOwned
    /\ \A o \in Op : ops[o].worker # "none" => ops[o].pc \in {"wait", "failing", "done"}

\* Manager.Close waits for all that is alive.
Awaited == closed => Live \subseteq waitFor

IInv == TypeOK /\ Counted /\ Shape /\ RetiredUnused /\ Dials /\ Awaited

-----------------------------------------------------------------------------
(* Counting. *)

\* Counts are natural numbers, and a holder makes its generation's count positive.
LEMMA CountFacts ==
    ASSUME Counted, NEW g \in Gen
    PROVE  /\ Cardinality(SessionsOf(g)) \in Nat /\ Cardinality(OpsOf(g)) \in Nat
           /\ SessionsOf(g) # {} => Cardinality(SessionsOf(g)) > 0
           /\ OpsOf(g) # {} => Cardinality(OpsOf(g)) > 0
           /\ gens[g].refs = Cardinality(SessionsOf(g)) + Cardinality(OpsOf(g))
<1>1. /\ IsFiniteSet(SessionsOf(g)) /\ IsFiniteSet(OpsOf(g))
      /\ gens[g].refs = Cardinality(SessionsOf(g)) + Cardinality(OpsOf(g))
    BY DEF Counted, Holders
<1>2. Cardinality(SessionsOf(g)) \in Nat /\ Cardinality(OpsOf(g)) \in Nat
    BY <1>1, FS_CardinalityType
<1>3. /\ Cardinality(SessionsOf(g)) = 0 <=> SessionsOf(g) = {}
      /\ Cardinality(OpsOf(g)) = 0 <=> OpsOf(g) = {}
    BY <1>1, FS_EmptySet
<1> QED
    BY <1>1, <1>2, <1>3

\* A step that keeps who holds a generation and its count keeps the equality.
LEMMA SameCount ==
    ASSUME Counted, NEW g \in Gen, SessionsOf(g)' = SessionsOf(g), OpsOf(g)' = OpsOf(g),
           gens'[g].refs = gens[g].refs
    PROVE  /\ IsFiniteSet(SessionsOf(g)') /\ IsFiniteSet(OpsOf(g)')
           /\ gens'[g].refs = Holders(g)'
BY DEF Counted, Holders

\* One more session, one more reference.
LEMMA SessionAdded ==
    ASSUME Counted, NEW g \in Gen, NEW s, s \notin SessionsOf(g),
           SessionsOf(g)' = SessionsOf(g) \cup {s}, OpsOf(g)' = OpsOf(g),
           gens'[g].refs = gens[g].refs + 1
    PROVE  /\ IsFiniteSet(SessionsOf(g)') /\ IsFiniteSet(OpsOf(g)')
           /\ gens'[g].refs = Holders(g)'
<1>1. /\ IsFiniteSet(SessionsOf(g)) /\ IsFiniteSet(OpsOf(g))
      /\ gens[g].refs = Cardinality(SessionsOf(g)) + Cardinality(OpsOf(g))
    BY DEF Counted, Holders
<1>2. /\ IsFiniteSet(SessionsOf(g) \cup {s})
      /\ Cardinality(SessionsOf(g) \cup {s}) = Cardinality(SessionsOf(g)) + 1
    BY <1>1, FS_AddElement
<1>3. Holders(g)' = Cardinality(SessionsOf(g)) + 1 + Cardinality(OpsOf(g))
    BY <1>2 DEF Holders
<1> QED
    BY <1>1, <1>2, <1>3, CountFacts

\* One session less, one reference less.
LEMMA SessionRemoved ==
    ASSUME Counted, NEW g \in Gen, NEW s, s \in SessionsOf(g),
           SessionsOf(g)' = SessionsOf(g) \ {s}, OpsOf(g)' = OpsOf(g),
           gens'[g].refs = gens[g].refs - 1
    PROVE  /\ IsFiniteSet(SessionsOf(g)') /\ IsFiniteSet(OpsOf(g)')
           /\ gens'[g].refs = Holders(g)'
<1>1. /\ IsFiniteSet(SessionsOf(g)) /\ IsFiniteSet(OpsOf(g))
      /\ gens[g].refs = Cardinality(SessionsOf(g)) + Cardinality(OpsOf(g))
    BY DEF Counted, Holders
<1>2. /\ IsFiniteSet(SessionsOf(g) \ {s})
      /\ Cardinality(SessionsOf(g) \ {s}) = Cardinality(SessionsOf(g)) - 1
    BY <1>1, FS_RemoveElement
<1>3. Holders(g)' = Cardinality(SessionsOf(g)) - 1 + Cardinality(OpsOf(g))
    BY <1>2 DEF Holders
<1> QED
    BY <1>1, <1>2, <1>3, CountFacts

\* One more operation in flight, one more reference.
LEMMA OpAdded ==
    ASSUME Counted, NEW g \in Gen, NEW o, o \notin OpsOf(g),
           SessionsOf(g)' = SessionsOf(g), OpsOf(g)' = OpsOf(g) \cup {o},
           gens'[g].refs = gens[g].refs + 1
    PROVE  /\ IsFiniteSet(SessionsOf(g)') /\ IsFiniteSet(OpsOf(g)')
           /\ gens'[g].refs = Holders(g)'
<1>1. /\ IsFiniteSet(SessionsOf(g)) /\ IsFiniteSet(OpsOf(g))
      /\ gens[g].refs = Cardinality(SessionsOf(g)) + Cardinality(OpsOf(g))
    BY DEF Counted, Holders
<1>2. /\ IsFiniteSet(OpsOf(g) \cup {o})
      /\ Cardinality(OpsOf(g) \cup {o}) = Cardinality(OpsOf(g)) + 1
    BY <1>1, FS_AddElement
<1>3. Holders(g)' = Cardinality(SessionsOf(g)) + (Cardinality(OpsOf(g)) + 1)
    BY <1>2 DEF Holders
<1> QED
    BY <1>1, <1>2, <1>3, CountFacts

\* One operation less, one reference less.
LEMMA OpRemoved ==
    ASSUME Counted, NEW g \in Gen, NEW o, o \in OpsOf(g),
           SessionsOf(g)' = SessionsOf(g), OpsOf(g)' = OpsOf(g) \ {o},
           gens'[g].refs = gens[g].refs - 1
    PROVE  /\ IsFiniteSet(SessionsOf(g)') /\ IsFiniteSet(OpsOf(g)')
           /\ gens'[g].refs = Holders(g)'
<1>1. /\ IsFiniteSet(SessionsOf(g)) /\ IsFiniteSet(OpsOf(g))
      /\ gens[g].refs = Cardinality(SessionsOf(g)) + Cardinality(OpsOf(g))
    BY DEF Counted, Holders
<1>2. /\ IsFiniteSet(OpsOf(g) \ {o})
      /\ Cardinality(OpsOf(g) \ {o}) = Cardinality(OpsOf(g)) - 1
    BY <1>1, FS_RemoveElement
<1>3. Holders(g)' = Cardinality(SessionsOf(g)) + (Cardinality(OpsOf(g)) - 1)
    BY <1>2 DEF Holders
<1> QED
    BY <1>1, <1>2, <1>3, CountFacts

\* What the fields of a generation are.
LEMMA GenFields ==
    ASSUME TypeOK, NEW g \in Gen
    PROVE  /\ gens[g] \in Generation /\ gens[g].refs \in Nat
           /\ gens[g].binding \in Binding \cup {None}
BY DEF TypeOK, Generation

\* What the fields of an operation are.
LEMMA OpFields ==
    ASSUME TypeOK, NEW o \in Op
    PROVE  ops[o] \in Operation /\ ops[o].gen \in Gen \cup {None}
BY DEF TypeOK, Operation

-----------------------------------------------------------------------------
(* Sessions. *)

\* Load: a shared generation is referenced already, a created one is untouched.
LEMMA LoadIInv ==
    ASSUME IInv, NEW s \in Session, NEW B \in Captures, Load(s, B)
    PROVE  IInv'
<1> DEFINE fresh == {b \in B : index[b] = None}
<1>1. PICK f \in [fresh -> FreeGen] :
        /\ \A b, c \in fresh : f[b] = f[c] => b = c
        /\ index' = [b \in Binding |-> IF b \in fresh THEN f[b] ELSE index[b]]
        /\ gens' = [g \in Gen |->
              IF \E b \in fresh : f[b] = g
              THEN [gens[g] EXCEPT !.binding = CHOOSE b \in fresh : f[b] = g, !.refs = 1]
              ELSE IF \E b \in B : index[b] = g THEN [gens[g] EXCEPT !.refs = @ + 1]
              ELSE gens[g]]
        /\ sess' = [sess EXCEPT ![s] = [st |-> "open", gens |-> {index'[b] : b \in B}]]
    BY Zenon DEF Load
<1>2. /\ sess[s].st = "none" /\ ~closed /\ UNCHANGED <<closed, waitFor, ops>>
    BY Zenon DEF Load, CanLoad, Lowest, FreeSession
<1>3. TypeOK /\ Counted /\ Shape /\ RetiredUnused /\ Dials /\ Awaited
    BY DEF IInv
<1>4. B \subseteq Binding /\ fresh \subseteq Binding
    OBVIOUS
<1>5. \A b \in fresh : f[b] \in Gen /\ gens[f[b]].binding = None
    BY DEF FreeGen
<1>6. \A b \in B \ fresh : index[b] \in Gen /\ gens[index[b]].refs > 0 /\ gens[index[b]].binding = b
    BY <1>3, <1>4, SMTT(30) DEF TypeOK, Shape
<1>7. \A b \in B : index'[b] \in Gen
    BY <1>1, <1>4, <1>5, <1>6, Zenon
<1>8. ASSUME NEW g \in Gen, NEW b \in fresh, f[b] = g
      PROVE  /\ gens'[g] \in Generation /\ gens'[g].refs = 1 /\ gens'[g].binding = b
             /\ gens'[g].closing = "no"
             /\ \A c \in Binding : index'[c] = g => c = b
             /\ gens[g].refs = 0 /\ gens[g].closing = "no"
    <2>1. (CHOOSE c \in fresh : f[c] = g) = b
        BY <1>8, <1>1, Zenon
    <2>2. gens[g].binding = None /\ gens[g].refs = 0 /\ gens[g].closing = "no"
        BY <1>3, <1>5, <1>8 DEF Shape
    <2>3. \A c \in Binding : index[c] # g
        BY <1>3, <2>2, SMTT(30) DEF Shape, TypeOK
    <2>4. gens'[g] = [gens[g] EXCEPT !.binding = b, !.refs = 1]
        BY <1>1, <1>8, <2>1, Zenon
    <2>5. gens'[g] \in Generation /\ gens'[g].refs = 1 /\ gens'[g].binding = b
          /\ gens'[g].closing = gens[g].closing
        <3>1. gens[g] \in Generation /\ b \in Binding
            BY <1>3, <1>4, GenFields
        <3>2. gens'[g] \in Generation
            <4>1. gens'[g] = [binding |-> b, refs |-> 1, closing |-> gens[g].closing,
                              pools |-> gens[g].pools, sdk |-> gens[g].sdk,
                              slot |-> gens[g].slot]
                BY <2>4, <3>1, Zenon DEF Generation
            <4> QED
                BY <3>1, <4>1 DEF Generation
        <3>3. gens'[g].refs = 1
            BY <2>4, <3>1 DEF Generation
        <3>4. gens'[g].binding = b
            BY <2>4, <3>1 DEF Generation
        <3>5. gens'[g].closing = gens[g].closing
            BY <2>4, <3>1 DEF Generation
        <3> QED
            BY <3>2, <3>3, <3>4, <3>5
    <2> QED
        BY <1>1, <1>8, <2>2, <2>3, <2>5, Zenon
<1>9. ASSUME NEW g \in Gen, ~\E b \in fresh : f[b] = g, NEW b \in B, index[b] = g
      PROVE  /\ gens'[g] \in Generation /\ gens'[g].refs = gens[g].refs + 1
             /\ gens'[g].binding = b /\ gens'[g].closing = gens[g].closing
             /\ b \notin fresh /\ gens[g].refs > 0 /\ gens[g].binding = b
    <2>1. gens'[g] = [gens[g] EXCEPT !.refs = @ + 1]
        BY <1>9, <1>1, Zenon
    <2>2. gens'[g] \in Generation /\ gens'[g].refs = gens[g].refs + 1
          /\ gens'[g].binding = gens[g].binding /\ gens'[g].closing = gens[g].closing
        BY <1>3, <2>1, GenFields DEF Generation
    <2> QED
        BY <1>6, <1>9, <2>2
<1>10. ASSUME NEW g \in Gen, ~\E b \in fresh : f[b] = g, ~\E b \in B : index[b] = g
       PROVE  gens'[g] = gens[g] /\ g \notin {index'[b] : b \in B}
    BY <1>10, <1>1, <1>4, Zenon
<1>11. ASSUME NEW g \in Gen
       PROVE  gens'[g] \in Generation
    BY <1>3, <1>8, <1>9, <1>10, GenFields
<1>12. TypeOK'
    <2>1. gens' \in [Gen -> Generation]
        BY <1>1, <1>11, Zenon
    <2>2. index' \in [Binding -> Gen \cup {None}]
        BY <1>1, <1>3, <1>5, Zenon DEF TypeOK
    <2>3. sess' \in [Session -> [st : {"none", "open", "closed"}, gens : SUBSET Gen]]
        <3>1. {index'[b] : b \in B} \in SUBSET Gen
            BY <1>7
        <3>2. [st |-> "open", gens |-> {index'[b] : b \in B}]
                 \in [st : {"none", "open", "closed"}, gens : SUBSET Gen]
            BY <3>1, Zenon
        <3> QED
            BY <1>1, <1>3, <3>2, Zenon DEF TypeOK
    <2> QED
        BY <1>2, <1>3, <2>1, <2>2, <2>3, Zenon DEF TypeOK
<1>13. /\ sess'[s].gens = {index'[b] : b \in B} /\ sess'[s].st = "open"
       /\ \A t \in Session : t # s => sess'[t] = sess[t]
       /\ sess[s].gens = {}
    BY <1>1, <1>2, <1>3, Zenon DEF TypeOK, Shape
<1>14. Counted'
    <2> SUFFICES ASSUME NEW g \in Gen
                 PROVE  /\ IsFiniteSet(SessionsOf(g)') /\ IsFiniteSet(OpsOf(g)')
                        /\ gens'[g].refs = Holders(g)'
        BY DEF Counted
    <2>1. OpsOf(g)' = OpsOf(g) /\ s \notin SessionsOf(g)
        BY <1>2, <1>13 DEF OpsOf, SessionsOf
    <2>2. g \in sess'[s].gens => SessionsOf(g)' = SessionsOf(g) \cup {s}
        BY <1>13 DEF SessionsOf
    <2>3. g \notin sess'[s].gens => SessionsOf(g)' = SessionsOf(g)
        BY <1>13 DEF SessionsOf
    <2>4. CASE \E b \in fresh : f[b] = g
        <3>1. PICK b \in fresh : f[b] = g
            BY <2>4
        <3>2. gens'[g].refs = gens[g].refs + 1
            BY <1>8, <3>1, SMTT(30)
        <3>3. g \in sess'[s].gens
            BY <1>1, <1>4, <1>13, <3>1, Zenon
        <3> QED
            BY <1>3, <2>1, <2>2, <3>2, <3>3, SessionAdded
    <2>5. CASE (~\E b \in fresh : f[b] = g) /\ (\E b \in B : index[b] = g)
        <3>1. PICK b \in B : index[b] = g
            BY <2>5
        <3>2. gens'[g].refs = gens[g].refs + 1
            BY <1>9, <2>5, <3>1
        <3>3. b \notin fresh
            BY <3>1, Zenon
        <3>4. index'[b] = g
            BY <1>1, <1>4, <3>1, <3>3, Zenon
        <3>5. g \in sess'[s].gens
            BY <1>13, <3>4
        <3> QED
            BY <1>3, <2>1, <2>2, <3>2, <3>5, SessionAdded
    <2>6. CASE (~\E b \in fresh : f[b] = g) /\ (~\E b \in B : index[b] = g)
        BY <1>3, <1>10, <1>13, <2>1, <2>3, <2>6, SameCount
    <2> QED
        BY <2>4, <2>5, <2>6
<1>15. Shape'
    <2>1. \A t \in Session : sess'[t].st = "none" => sess'[t].gens = {}
        BY <1>3, <1>13 DEF Shape
    <2>2. \A o \in Op : ops'[o].pc # "none" => ops'[o].gen \in Gen
        BY <1>2, <1>3 DEF Shape
    <2>3. ASSUME NEW g \in Gen, gens'[g].binding = None
          PROVE  gens'[g].refs = 0 /\ gens'[g].closing = "no"
        BY <1>3, <1>4, <1>8, <1>9, <1>10, <2>3 DEF Shape
    <2>4. ASSUME NEW b \in Binding, index'[b] # None
          PROVE  gens'[index'[b]].refs > 0 /\ gens'[index'[b]].binding = b
        <3>1. CASE b \in fresh
            <4>1. index'[b] = f[b] /\ f[b] \in Gen
                BY <1>1, <1>5, <3>1, Zenon
            <4> QED
                BY <1>8, <3>1, <4>1, SMTT(30)
        <3>2. CASE b \notin fresh
            <4>1. index'[b] = index[b] /\ index[b] \in Gen
                BY <1>1, <1>3, <2>4, <3>2, Zenon DEF TypeOK
            <4>2. gens[index[b]].refs > 0 /\ gens[index[b]].binding = b
                BY <1>3, <4>1 DEF Shape
            <4>3. ~\E c \in fresh : f[c] = index[b]
                BY <1>5, <4>2
            <4> QED
                BY <1>3, <1>9, <1>10, <4>1, <4>2, <4>3, GenFields, SMTT(30)
        <3> QED
            BY <3>1, <3>2
    <2> QED
        BY <2>1, <2>2, <2>3, <2>4 DEF Shape
<1>16. RetiredUnused'
    BY <1>2, <1>3, <1>8, <1>9, <1>10 DEF RetiredUnused
<1>17. Dials' /\ Awaited'
    BY <1>2, <1>3 DEF Dials, ConnectionsOwned, Awaited
<1> QED
    BY <1>12, <1>14, <1>15, <1>16, <1>17, Zenon DEF IInv

\* Session.Retain: what the handle holds is referenced.
LEMMA RetainIInv ==
    ASSUME IInv, NEW s \in Session, NEW t \in Session, Retain(s, t)
    PROVE  IInv'
<1>1. TypeOK /\ Counted /\ Shape /\ RetiredUnused /\ Dials /\ Awaited
    BY DEF IInv
<1>2. /\ sess[s].st = "open" /\ sess[t].st = "none" /\ ~closed
      /\ gens' = [g \in Gen |-> IF g \in sess[s].gens THEN [gens[g] EXCEPT !.refs = @ + 1]
                                ELSE gens[g]]
      /\ sess' = [sess EXCEPT ![t] = sess[s]]
      /\ UNCHANGED <<closed, waitFor, index, ops>>
    BY DEF Retain, Lowest, FreeSession
<1>3. /\ sess[t].gens = {} /\ sess'[t] = sess[s] /\ sess[s].gens \subseteq Gen
      /\ \A u \in Session : u # t => sess'[u] = sess[u]
    BY <1>1, <1>2 DEF TypeOK, Shape
<1>4. ASSUME NEW g \in Gen, g \in sess[s].gens
      PROVE  /\ gens'[g] \in Generation /\ gens'[g].refs = gens[g].refs + 1
             /\ gens'[g].binding = gens[g].binding /\ gens'[g].closing = gens[g].closing
             /\ gens[g].refs > 0
    <2>1. gens'[g] = [gens[g] EXCEPT !.refs = @ + 1]
        BY <1>2, <1>4
    <2>2. gens'[g] \in Generation /\ gens'[g].refs = gens[g].refs + 1
          /\ gens'[g].binding = gens[g].binding /\ gens'[g].closing = gens[g].closing
        BY <1>1, <2>1, GenFields DEF Generation
    <2>3. SessionsOf(g) # {}
        BY <1>4 DEF SessionsOf
    <2> QED
        BY <1>1, <2>2, <2>3, CountFacts
<1>5. ASSUME NEW g \in Gen, g \notin sess[s].gens
      PROVE  gens'[g] = gens[g]
    BY <1>2, <1>5
<1>6. TypeOK'
    <2>1. gens' \in [Gen -> Generation]
        BY <1>1, <1>2, <1>4, <1>5, GenFields
    <2>2. sess' \in [Session -> [st : {"none", "open", "closed"}, gens : SUBSET Gen]]
        BY <1>1, <1>2 DEF TypeOK
    <2> QED
        BY <1>1, <1>2, <2>1, <2>2 DEF TypeOK
<1>7. Counted'
    <2> SUFFICES ASSUME NEW g \in Gen
                 PROVE  /\ IsFiniteSet(SessionsOf(g)') /\ IsFiniteSet(OpsOf(g)')
                        /\ gens'[g].refs = Holders(g)'
        BY DEF Counted
    <2>1. OpsOf(g)' = OpsOf(g) /\ t \notin SessionsOf(g)
        BY <1>2, <1>3 DEF OpsOf, SessionsOf
    <2>2. CASE g \in sess[s].gens
        <3>1. SessionsOf(g)' = SessionsOf(g) \cup {t}
            BY <1>3, <2>2 DEF SessionsOf
        <3> QED
            BY <1>1, <1>4, <2>1, <2>2, <3>1, SessionAdded, Zenon
    <2>3. CASE g \notin sess[s].gens
        <3>1. SessionsOf(g)' = SessionsOf(g)
            BY <1>3, <2>3 DEF SessionsOf
        <3> QED
            BY <1>1, <1>5, <2>1, <2>3, <3>1, SameCount
    <2> QED
        BY <2>2, <2>3
<1>8. Shape'
    <2>1. \A u \in Session : sess'[u].st = "none" => sess'[u].gens = {}
        BY <1>1, <1>2, <1>3 DEF Shape
    <2>2. \A g \in Gen : gens'[g].binding = None => gens'[g].refs = 0 /\ gens'[g].closing = "no"
        BY <1>1, <1>4, <1>5 DEF Shape
    <2>3. \A b \in Binding : index[b] # None =>
              gens'[index[b]].refs > 0 /\ gens'[index[b]].binding = b
        <3> SUFFICES ASSUME NEW b \in Binding, index[b] # None
                     PROVE  gens'[index[b]].refs > 0 /\ gens'[index[b]].binding = b
            OBVIOUS
        <3>1. index[b] \in Gen /\ gens[index[b]].refs > 0 /\ gens[index[b]].binding = b
            BY <1>1 DEF TypeOK, Shape
        <3> QED
            BY <1>1, <1>4, <1>5, <3>1, GenFields
    <2>4. (\A o \in Op : ops'[o].pc # "none" => ops'[o].gen \in Gen) /\ index' = index
        BY <1>1, <1>2 DEF Shape
    <2> QED
        BY <2>1, <2>2, <2>3, <2>4, Zenon DEF Shape
<1>9. RetiredUnused'
    BY <1>1, <1>2, <1>4, <1>5, Zenon DEF RetiredUnused
<1>10. Dials' /\ Awaited'
    BY <1>1, <1>2 DEF Dials, ConnectionsOwned, Awaited, Live
<1> QED
    BY <1>6, <1>7, <1>8, <1>9, <1>10 DEF IInv

\* Session.Close marks the handle; its generations are still held.
LEMMA CloseIInv ==
    ASSUME IInv, NEW s \in Session, Close(s)
    PROVE  IInv'
<1>1. TypeOK /\ Counted /\ Shape /\ RetiredUnused /\ Dials /\ Awaited
    BY DEF IInv
<1>2. /\ sess[s].st = "open" /\ sess' = [sess EXCEPT ![s].st = "closed"]
      /\ UNCHANGED <<closed, waitFor, index, gens, ops>>
    BY DEF Close
<1>3. /\ sess' \in [Session -> [st : {"none", "open", "closed"}, gens : SUBSET Gen]]
      /\ \A t \in Session : /\ sess'[t].gens = sess[t].gens
                             /\ sess'[t].st = "none" => sess[t].st = "none"
    BY <1>1, <1>2 DEF TypeOK
<1>4. TypeOK'
    BY <1>1, <1>2, <1>3 DEF TypeOK
<1>5. Counted'
    <2>1. \A g \in Gen : SessionsOf(g)' = SessionsOf(g) /\ OpsOf(g)' = OpsOf(g)
        BY <1>2, <1>3 DEF SessionsOf, OpsOf
    <2> QED
        BY <1>1, <1>2, <2>1, SameCount DEF Counted
<1>6. Shape' /\ RetiredUnused'
    BY <1>1, <1>2, <1>3 DEF Shape, RetiredUnused
<1>7. Dials' /\ Awaited'
    BY <1>1, <1>2 DEF Dials, ConnectionsOwned, Awaited, Live
<1> QED
    BY <1>4, <1>5, <1>6, <1>7 DEF IInv

-----------------------------------------------------------------------------
(* Steps that leave the references alone. *)

\* Retirement goes forward, and starts at no generation.
GensKept ==
    /\ gens' \in [Gen -> Generation]
    /\ \A g \in Gen : /\ gens'[g].refs = gens[g].refs /\ gens'[g].binding = gens[g].binding
                      /\ gens[g].closing \in {"no", "closed"} => gens'[g].closing = gens[g].closing

\* The same operations are in flight, on the same generations.
OpsKept ==
    /\ ops' \in [Op -> Operation]
    /\ \A o \in Op : /\ ops'[o].pc \in InFlight <=> ops[o].pc \in InFlight
                     /\ ops[o].pc \in InFlight => ops'[o].gen = ops[o].gen
                     /\ ops'[o].pc # "none" => ops'[o].gen \in Gen

\* Such a step keeps the invariant.
LEMMA KeptIInv ==
    ASSUME IInv, GensKept, OpsKept, Dials', UNCHANGED <<closed, waitFor, index, sess>>
    PROVE  IInv'
<1>1. TypeOK /\ Counted /\ Shape /\ RetiredUnused /\ Awaited
    BY DEF IInv
<1>2. TypeOK'
    BY <1>1 DEF TypeOK, GensKept, OpsKept
<1>3. Counted'
    <2>1. \A g \in Gen : SessionsOf(g)' = SessionsOf(g) /\ OpsOf(g)' = OpsOf(g)
        BY DEF SessionsOf, OpsOf, OpsKept
    <2> QED
        BY <1>1, <2>1, SameCount, SMTT(30) DEF Counted, GensKept
<1>4. Shape'
    <2>1. \A b \in Binding : index[b] # None =>
              gens'[index[b]].refs > 0 /\ gens'[index[b]].binding = b
        BY <1>1 DEF TypeOK, Shape, GensKept
    <2> QED
        BY <1>1, <2>1 DEF Shape, GensKept, OpsKept
<1>5. RetiredUnused'
    BY <1>1 DEF RetiredUnused, GensKept
<1>6. Awaited'
    BY <1>1 DEF Awaited, Live, GensKept
<1> QED
    BY <1>2, <1>3, <1>4, <1>5, <1>6 DEF IInv

\* What a step of one operation has to show.
LEMMA OneOp ==
    ASSUME IInv, NEW o \in Op, ops' \in [Op -> Operation],
           \A p \in Op : p # o => ops'[p] = ops[p],
           ops'[o].pc \in InFlight <=> ops[o].pc \in InFlight,
           ops'[o].gen = ops[o].gen \/ ops[o].pc \notin InFlight,
           ops'[o].gen \in Gen,
           ops'[o].conn = "open" => ops'[o].worker = "handoff" \/ ops'[o].pc = "body",
           ops'[o].worker # "none" => ops'[o].pc \in {"wait", "failing", "done"}
    PROVE  OpsKept /\ Dials'
<1>1. Shape /\ Dials
    BY DEF IInv
<1>2. OpsKept
    BY <1>1 DEF Shape, OpsKept
<1>3. Dials'
    BY <1>1 DEF Dials, ConnectionsOwned
<1> QED
    BY <1>2, <1>3

\* Steps that leave the operations alone.
LEMMA SameOps ==
    ASSUME IInv, UNCHANGED ops
    PROVE  OpsKept /\ Dials'
<1>1. TypeOK /\ Shape /\ Dials
    BY DEF IInv
<1>2. OpsKept
    BY <1>1 DEF TypeOK, Shape, OpsKept
<1>3. Dials'
    BY <1>1 DEF Dials, ConnectionsOwned
<1> QED
    BY <1>2, <1>3

\* Steps that leave the generations alone.
LEMMA SameGens ==
    ASSUME IInv, UNCHANGED gens
    PROVE  GensKept
BY DEF IInv, TypeOK, GensKept

\* What a step of one generation has to show.
LEMMA OneGen ==
    ASSUME IInv, NEW g \in Gen, gens' \in [Gen -> Generation],
           \A h \in Gen : h # g => gens'[h] = gens[h],
           gens'[g].refs = gens[g].refs, gens'[g].binding = gens[g].binding,
           gens[g].closing \in {"no", "closed"} => gens'[g].closing = gens[g].closing
    PROVE  GensKept
BY DEF GensKept

\* A dial slot is taken or freed.
LEMMA SlotGensKept ==
    ASSUME IInv, NEW g \in Gen, NEW v \in BOOLEAN, gens' = [gens EXCEPT ![g].slot = v]
    PROVE  GensKept
<1>1. TypeOK
    BY DEF IInv
<1>2. gens[g] \in Generation
    BY <1>1, GenFields
<1>3. [gens[g] EXCEPT !.slot = v] \in Generation
    BY <1>2 DEF Generation
<1>4. gens' \in [Gen -> Generation]
    BY <1>1, <1>3 DEF TypeOK
<1>5. /\ gens'[g].refs = gens[g].refs /\ gens'[g].binding = gens[g].binding
      /\ gens'[g].closing = gens[g].closing
      /\ \A h \in Gen : h # g => gens'[h] = gens[h]
    BY <1>1, <1>2 DEF TypeOK, Generation
<1> QED
    BY <1>4, <1>5, OneGen

\* startClose: a closing that was due goes on.
LEMMA StartCloseIInv ==
    ASSUME IInv, NEW g \in Gen, StartClose(g)
    PROVE  IInv'
<1>1. TypeOK
    BY DEF IInv
<1>2. gens[g].closing = "due" /\ gens' = [gens EXCEPT ![g].closing = "cancelled"]
      /\ UNCHANGED <<closed, waitFor, index, sess, ops>>
    BY DEF StartClose
<1>3. gens' \in [Gen -> Generation]
    <2>1. gens[g] \in Generation
        BY <1>1, GenFields
    <2>2. [gens[g] EXCEPT !.closing = "cancelled"] \in Generation
        BY <2>1 DEF Generation
    <2> QED
        BY <1>1, <1>2, <2>2 DEF TypeOK
<1>4. /\ gens'[g].refs = gens[g].refs /\ gens'[g].binding = gens[g].binding
      /\ \A h \in Gen : h # g => gens'[h] = gens[h]
    BY <1>1, <1>2 DEF TypeOK, Generation
<1>5. GensKept
    BY <1>2, <1>3, <1>4, OneGen
<1>6. OpsKept /\ Dials'
    BY <1>2, SameOps
<1> QED
    BY <1>2, <1>5, <1>6, KeptIInv

\* closePools, the first half of shutdown.
LEMMA DrainPoolsIInv ==
    ASSUME IInv, NEW g \in Gen, DrainPools(g)
    PROVE  IInv'
<1>1. TypeOK
    BY DEF IInv
<1>2. gens[g].closing = "cancelled"
      /\ gens' = [gens EXCEPT ![g].closing = "drained", ![g].pools = FALSE]
      /\ UNCHANGED <<closed, waitFor, index, sess, ops>>
    BY DEF DrainPools
<1>3. gens' \in [Gen -> Generation]
    <2>1. gens[g] \in Generation
        BY <1>1, GenFields
    <2>2. [gens[g] EXCEPT !.closing = "drained", !.pools = FALSE] \in Generation
        BY <2>1, Zenon DEF Generation
    <2> QED
        BY <1>1, <1>2, <2>2, SMTT(30) DEF TypeOK
<1>4. /\ gens'[g].refs = gens[g].refs /\ gens'[g].binding = gens[g].binding
      /\ \A h \in Gen : h # g => gens'[h] = gens[h]
    BY <1>1, <1>2 DEF TypeOK, Generation
<1>5. GensKept
    BY <1>2, <1>3, <1>4, OneGen
<1>6. OpsKept /\ Dials'
    BY <1>2, SameOps
<1> QED
    BY <1>2, <1>5, <1>6, KeptIInv

\* shutdown's second half closes the SDK context.
LEMMA ShutdownIInv ==
    ASSUME IInv, NEW g \in Gen, Shutdown(g)
    PROVE  IInv'
<1>1. TypeOK
    BY DEF IInv
<1>2. gens[g].closing = "drained"
      /\ gens' = [gens EXCEPT ![g].closing = "closed",
                              ![g].sdk = IF @ = "open" THEN "closed" ELSE @]
      /\ UNCHANGED <<closed, waitFor, index, sess, ops>>
    BY DEF Shutdown
<1>3. gens' \in [Gen -> Generation]
    <2>1. gens[g] \in Generation
        BY <1>1, GenFields
    <2>2. [gens[g] EXCEPT !.closing = "closed",
                          !.sdk = IF @ = "open" THEN "closed" ELSE @] \in Generation
        BY <2>1, Zenon DEF Generation
    <2> QED
        BY <1>1, <1>2, <2>2 DEF TypeOK
<1>4. /\ gens'[g].refs = gens[g].refs /\ gens'[g].binding = gens[g].binding
      /\ \A h \in Gen : h # g => gens'[h] = gens[h]
    BY <1>1, <1>2 DEF TypeOK, Generation
<1>5. GensKept
    BY <1>2, <1>3, <1>4, OneGen
<1>6. OpsKept /\ Dials'
    BY <1>2, SameOps
<1> QED
    BY <1>2, <1>5, <1>6, KeptIInv

-----------------------------------------------------------------------------
(* Operations that keep what they hold. *)

\* Session.Transport: a bound transport holds nothing yet.
LEMMA TransportIInv ==
    ASSUME IInv, NEW o \in Op, NEW s \in Session, NEW g \in Gen, Transport(o, s, g)
    PROVE  IInv'
<1>1. TypeOK /\ Shape /\ Dials
    BY DEF IInv
<1>2. ops[o].pc = "none" /\ UNCHANGED <<closed, waitFor, index, sess>>
    BY DEF Transport, Lowest, FreeOp
<1>3. ops[o] \in Operation
    BY <1>1, OpFields
<1>4. ops' = [ops EXCEPT ![o].pc = "bound", ![o].gen = g] /\ UNCHANGED gens
    BY DEF Transport
<1>5. IInv'
    <2>1. [ops[o] EXCEPT !.pc = "bound", !.gen = g] \in Operation
        BY <1>3, Zenon DEF Operation
    <2>2. ops' \in [Op -> Operation]
        BY <1>1, <1>4, <2>1 DEF TypeOK
    <2>3. /\ ops'[o].pc = "bound" /\ ops'[o].gen = g
          /\ ops'[o].worker = ops[o].worker /\ ops'[o].conn = ops[o].conn
        BY <1>1, <1>3, <1>4 DEF TypeOK, Operation
    <2>4. \A p \in Op : p # o => ops'[p] = ops[p]
        BY <1>1, <1>4 DEF TypeOK
    <2>5. /\ ops'[o].pc \in InFlight <=> ops[o].pc \in InFlight
          /\ ops'[o].conn = "open" => ops'[o].worker = "handoff" \/ ops'[o].pc = "body"
          /\ ops'[o].worker # "none" => ops'[o].pc \in {"wait", "failing", "done"}
        BY <1>1, <1>2, <1>4, <2>3 DEF InFlight, Dials, ConnectionsOwned
    <2>6. OpsKept /\ Dials'
        BY <1>2, <1>3, <2>2, <2>3, <2>4, <2>5, OneOp DEF InFlight
    <2>7. GensKept
        BY <1>4, SameGens
    <2> QED
        BY <1>2, <2>6, <2>7, KeptIInv
<1> QED
    BY <1>5

\* register, after the reference is taken.
LEMMA RegisterIInv ==
    ASSUME IInv, NEW o \in Op, Register(o)
    PROVE  IInv'
<1>1. TypeOK /\ Shape /\ Dials
    BY DEF IInv
<1>2. /\ ops[o].pc = "held" /\ RegisteredOrFailing(o) \in {"registered", "failing"}
      /\ UNCHANGED <<closed, waitFor, index, sess>>
    BY DEF Register, RegisteredOrFailing
<1>3. ops[o] \in Operation /\ ops[o].gen \in Gen
    BY <1>1, <1>2, OpFields DEF Shape, Dials
<1>4. ops' = [ops EXCEPT ![o].pc = RegisteredOrFailing(o)] /\ UNCHANGED gens
    BY DEF Register
<1>5. IInv'
    <2>1. [ops[o] EXCEPT !.pc = RegisteredOrFailing(o)] \in Operation
        BY <1>2, <1>3 DEF Operation
    <2>2. ops' \in [Op -> Operation]
        BY <1>1, <1>4, <2>1 DEF TypeOK
    <2>3. /\ ops'[o].pc = RegisteredOrFailing(o) /\ ops'[o].gen = ops[o].gen
          /\ ops'[o].worker = ops[o].worker /\ ops'[o].conn = ops[o].conn
        BY <1>1, <1>3, <1>4 DEF TypeOK, Operation
    <2>4. \A p \in Op : p # o => ops'[p] = ops[p]
        BY <1>1, <1>4 DEF TypeOK
    <2>5. /\ ops'[o].pc \in InFlight <=> ops[o].pc \in InFlight
          /\ ops'[o].conn = "open" => ops'[o].worker = "handoff" \/ ops'[o].pc = "body"
          /\ ops'[o].worker # "none" => ops'[o].pc \in {"wait", "failing", "done"}
        BY <1>1, <1>2, <1>4, <2>3, SMTT(30) DEF InFlight, Dials, ConnectionsOwned
    <2>6. OpsKept /\ Dials'
        BY <1>2, <1>3, <2>2, <2>3, <2>4, <2>5, OneOp DEF InFlight
    <2>7. GensKept
        BY <1>4, SameGens
    <2> QED
        BY <1>2, <2>6, <2>7, KeptIInv
<1> QED
    BY <1>5

\* The request's context is cancelled.
LEMMA CancelIInv ==
    ASSUME IInv, NEW o \in Op, Cancel(o)
    PROVE  IInv'
<1>1. TypeOK /\ Shape /\ Dials
    BY DEF IInv
<1>2. ops[o].pc # "none" /\ UNCHANGED <<closed, waitFor, index, sess>>
    BY DEF Cancel
<1>3. ops[o] \in Operation /\ ops[o].gen \in Gen
    BY <1>1, <1>2, OpFields DEF Shape, Dials
<1>4. ops' = [ops EXCEPT ![o].cancelled = TRUE] /\ UNCHANGED gens
    BY DEF Cancel
<1>5. IInv'
    <2>1. [ops[o] EXCEPT !.cancelled = TRUE] \in Operation
        BY <1>3, Zenon DEF Operation
    <2>2. ops' \in [Op -> Operation]
        BY <1>1, <1>4, <2>1 DEF TypeOK
    <2>3. /\ ops'[o].pc = ops[o].pc /\ ops'[o].gen = ops[o].gen
          /\ ops'[o].worker = ops[o].worker /\ ops'[o].conn = ops[o].conn
        BY <1>1, <1>3, <1>4 DEF TypeOK, Operation
    <2>4. \A p \in Op : p # o => ops'[p] = ops[p]
        BY <1>1, <1>4 DEF TypeOK
    <2>5. /\ ops'[o].pc \in InFlight <=> ops[o].pc \in InFlight
          /\ ops'[o].conn = "open" => ops'[o].worker = "handoff" \/ ops'[o].pc = "body"
          /\ ops'[o].worker # "none" => ops'[o].pc \in {"wait", "failing", "done"}
        BY <1>1, <1>2, <1>4, <2>3 DEF InFlight, Dials, ConnectionsOwned
    <2>6. OpsKept /\ Dials'
        BY <1>2, <1>3, <2>2, <2>3, <2>4, <2>5, OneOp DEF InFlight
    <2>7. GensKept
        BY <1>4, SameGens
    <2> QED
        BY <1>2, <2>6, <2>7, KeptIInv
<1> QED
    BY <1>5

\* The caller of dial returns without its worker.
LEMMA GiveUpIInv ==
    ASSUME IInv, NEW o \in Op, GiveUp(o)
    PROVE  IInv'
<1>1. TypeOK /\ Shape /\ Dials
    BY DEF IInv
<1>2. ops[o].pc = "wait" /\ UNCHANGED <<closed, waitFor, index, sess>>
    BY DEF GiveUp, GivesUp
<1>3. ops[o] \in Operation /\ ops[o].gen \in Gen
    BY <1>1, <1>2, OpFields DEF Shape, Dials
<1>4. ops' = [ops EXCEPT ![o].pc = "failing"] /\ UNCHANGED gens
    BY DEF GiveUp
<1>5. IInv'
    <2>1. [ops[o] EXCEPT !.pc = "failing"] \in Operation
        BY <1>3 DEF Operation
    <2>2. ops' \in [Op -> Operation]
        BY <1>1, <1>4, <2>1 DEF TypeOK
    <2>3. /\ ops'[o].pc = "failing" /\ ops'[o].gen = ops[o].gen
          /\ ops'[o].worker = ops[o].worker /\ ops'[o].conn = ops[o].conn
        BY <1>1, <1>3, <1>4 DEF TypeOK, Operation
    <2>4. \A p \in Op : p # o => ops'[p] = ops[p]
        BY <1>1, <1>4 DEF TypeOK
    <2>5. /\ ops'[o].pc \in InFlight <=> ops[o].pc \in InFlight
          /\ ops'[o].conn = "open" => ops'[o].worker = "handoff" \/ ops'[o].pc = "body"
          /\ ops'[o].worker # "none" => ops'[o].pc \in {"wait", "failing", "done"}
        BY <1>1, <1>2, <1>4, <2>3 DEF InFlight, Dials, ConnectionsOwned
    <2>6. OpsKept /\ Dials'
        BY <1>2, <1>3, <2>2, <2>3, <2>4, <2>5, OneOp DEF InFlight
    <2>7. GensKept
        BY <1>4, SameGens
    <2> QED
        BY <1>2, <2>6, <2>7, KeptIInv
<1> QED
    BY <1>5

\* The generation's dial slot.
LEMMA TakeSlotIInv ==
    ASSUME IInv, NEW o \in Op, TakeSlot(o)
    PROVE  IInv'
<1>1. TypeOK /\ Shape /\ Dials
    BY DEF IInv
<1>2. ops[o].pc = "registered" /\ UNCHANGED <<closed, waitFor, index, sess>>
    BY DEF TakeSlot
<1>3. ops[o] \in Operation /\ ops[o].gen \in Gen
    BY <1>1, <1>2, OpFields DEF Shape, Dials
<1>4. CASE ops' = [ops EXCEPT ![o].pc = "failing"] /\ UNCHANGED gens
    <2>1. [ops[o] EXCEPT !.pc = "failing"] \in Operation
        BY <1>3 DEF Operation
    <2>2. ops' \in [Op -> Operation]
        BY <1>1, <1>4, <2>1 DEF TypeOK
    <2>3. /\ ops'[o].pc = "failing" /\ ops'[o].gen = ops[o].gen
          /\ ops'[o].worker = ops[o].worker /\ ops'[o].conn = ops[o].conn
        BY <1>1, <1>3, <1>4 DEF TypeOK, Operation
    <2>4. \A p \in Op : p # o => ops'[p] = ops[p]
        BY <1>1, <1>4 DEF TypeOK
    <2>5. /\ ops'[o].pc \in InFlight <=> ops[o].pc \in InFlight
          /\ ops'[o].conn = "open" => ops'[o].worker = "handoff" \/ ops'[o].pc = "body"
          /\ ops'[o].worker # "none" => ops'[o].pc \in {"wait", "failing", "done"}
        BY <1>1, <1>2, <1>4, <2>3 DEF InFlight, Dials, ConnectionsOwned
    <2>6. OpsKept /\ Dials'
        BY <1>2, <1>3, <2>2, <2>3, <2>4, <2>5, OneOp DEF InFlight
    <2>7. GensKept
        BY <1>4, SameGens
    <2> QED
        BY <1>2, <2>6, <2>7, KeptIInv
<1>5. CASE ops' = [ops EXCEPT ![o].pc = "slot"]
         /\ gens' = [gens EXCEPT ![ops[o].gen].slot = TRUE]
    <2>1. [ops[o] EXCEPT !.pc = "slot"] \in Operation
        BY <1>3 DEF Operation
    <2>2. ops' \in [Op -> Operation]
        BY <1>1, <1>5, <2>1 DEF TypeOK
    <2>3. /\ ops'[o].pc = "slot" /\ ops'[o].gen = ops[o].gen
          /\ ops'[o].worker = ops[o].worker /\ ops'[o].conn = ops[o].conn
        BY <1>1, <1>3, <1>5 DEF TypeOK, Operation
    <2>4. \A p \in Op : p # o => ops'[p] = ops[p]
        BY <1>1, <1>5 DEF TypeOK
    <2>5. /\ ops'[o].pc \in InFlight <=> ops[o].pc \in InFlight
          /\ ops'[o].conn = "open" => ops'[o].worker = "handoff" \/ ops'[o].pc = "body"
          /\ ops'[o].worker # "none" => ops'[o].pc \in {"wait", "failing", "done"}
        BY <1>1, <1>2, <1>5, <2>3 DEF InFlight, Dials, ConnectionsOwned
    <2>6. OpsKept /\ Dials'
        BY <1>2, <1>3, <2>2, <2>3, <2>4, <2>5, OneOp DEF InFlight
    <2>7. GensKept
        BY <1>3, <1>5, SlotGensKept, Zenon
    <2> QED
        BY <1>2, <2>6, <2>7, KeptIInv
<1> QED
    BY <1>4, <1>5 DEF TakeSlot

\* The manager's dial slot; the worker starts.
LEMMA TakeDialIInv ==
    ASSUME IInv, NEW o \in Op, TakeDial(o)
    PROVE  IInv'
<1>1. TypeOK /\ Shape /\ Dials
    BY DEF IInv
<1>2. ops[o].pc = "slot" /\ UNCHANGED <<closed, waitFor, index, sess>>
    BY DEF TakeDial
<1>3. ops[o] \in Operation /\ ops[o].gen \in Gen
    BY <1>1, <1>2, OpFields DEF Shape, Dials
<1>4. CASE ops' = [ops EXCEPT ![o].pc = "failing"]
         /\ gens' = [gens EXCEPT ![ops[o].gen].slot = FALSE]
    <2>1. [ops[o] EXCEPT !.pc = "failing"] \in Operation
        BY <1>3 DEF Operation
    <2>2. ops' \in [Op -> Operation]
        BY <1>1, <1>4, <2>1 DEF TypeOK
    <2>3. /\ ops'[o].pc = "failing" /\ ops'[o].gen = ops[o].gen
          /\ ops'[o].worker = ops[o].worker /\ ops'[o].conn = ops[o].conn
        BY <1>1, <1>3, <1>4 DEF TypeOK, Operation
    <2>4. \A p \in Op : p # o => ops'[p] = ops[p]
        BY <1>1, <1>4 DEF TypeOK
    <2>5. /\ ops'[o].pc \in InFlight <=> ops[o].pc \in InFlight
          /\ ops'[o].conn = "open" => ops'[o].worker = "handoff" \/ ops'[o].pc = "body"
          /\ ops'[o].worker # "none" => ops'[o].pc \in {"wait", "failing", "done"}
        BY <1>1, <1>2, <1>4, <2>3 DEF InFlight, Dials, ConnectionsOwned
    <2>6. OpsKept /\ Dials'
        BY <1>2, <1>3, <2>2, <2>3, <2>4, <2>5, OneOp DEF InFlight
    <2>7. GensKept
        BY <1>3, <1>4, SlotGensKept, Zenon
    <2> QED
        BY <1>2, <2>6, <2>7, KeptIInv
<1>5. CASE ops' = [ops EXCEPT ![o].pc = "wait", ![o].worker = "context"] /\ UNCHANGED gens
    <2>1. [ops[o] EXCEPT !.pc = "wait", !.worker = "context"] \in Operation
        BY <1>3, Zenon DEF Operation
    <2>2. ops' \in [Op -> Operation]
        BY <1>1, <1>5, <2>1 DEF TypeOK
    <2>3. /\ ops'[o].pc = "wait" /\ ops'[o].gen = ops[o].gen
          /\ ops'[o].worker = "context" /\ ops'[o].conn = ops[o].conn
        BY <1>1, <1>3, <1>5 DEF TypeOK, Operation
    <2>4. \A p \in Op : p # o => ops'[p] = ops[p]
        BY <1>1, <1>5 DEF TypeOK
    <2>5. /\ ops'[o].pc \in InFlight <=> ops[o].pc \in InFlight
          /\ ops'[o].conn = "open" => ops'[o].worker = "handoff" \/ ops'[o].pc = "body"
          /\ ops'[o].worker # "none" => ops'[o].pc \in {"wait", "failing", "done"}
        BY <1>1, <1>2, <1>5, <2>3 DEF InFlight, Dials, ConnectionsOwned
    <2>6. OpsKept /\ Dials'
        BY <1>2, <1>3, <2>2, <2>3, <2>4, <2>5, OneOp DEF InFlight
    <2>7. GensKept
        BY <1>5, SameGens
    <2> QED
        BY <1>2, <2>6, <2>7, KeptIInv
<1> QED
    BY <1>4, <1>5 DEF TakeDial

\* The SDK call returns to the worker.
LEMMA WorkerDialIInv ==
    ASSUME IInv, NEW o \in Op, NEW conn \in {"none", "open"},
           ops[o].worker = "dial", UNCHANGED <<closed, waitFor, index, gens, sess>>,
           ops' = [ops EXCEPT ![o].worker = "handoff", ![o].conn = conn]
    PROVE  IInv'
<1>1. TypeOK /\ Shape /\ Dials
    BY DEF IInv
<1>2. ops[o].worker = "dial" /\ UNCHANGED <<closed, waitFor, index, sess>>
    OBVIOUS
<1>3. ops[o] \in Operation /\ ops[o].gen \in Gen
    BY <1>1, <1>2, OpFields DEF Shape, Dials
<1>4. ops' = [ops EXCEPT ![o].worker = "handoff", ![o].conn = conn] /\ UNCHANGED gens
    OBVIOUS
<1>5. IInv'
    <2>1. [ops[o] EXCEPT !.worker = "handoff", !.conn = conn] \in Operation
        BY <1>3, Zenon DEF Operation
    <2>2. ops' \in [Op -> Operation]
        BY <1>1, <1>4, <2>1 DEF TypeOK
    <2>3. /\ ops'[o].pc = ops[o].pc /\ ops'[o].gen = ops[o].gen
          /\ ops'[o].worker = "handoff" /\ ops'[o].conn = conn
        BY <1>1, <1>3, <1>4 DEF TypeOK, Operation
    <2>4. \A p \in Op : p # o => ops'[p] = ops[p]
        BY <1>1, <1>4 DEF TypeOK
    <2>5. /\ ops'[o].pc \in InFlight <=> ops[o].pc \in InFlight
          /\ ops'[o].conn = "open" => ops'[o].worker = "handoff" \/ ops'[o].pc = "body"
          /\ ops'[o].worker # "none" => ops'[o].pc \in {"wait", "failing", "done"}
        BY <1>1, <1>2, <1>4, <2>3 DEF InFlight, Dials, ConnectionsOwned
    <2>6. OpsKept /\ Dials'
        BY <1>2, <1>3, <2>2, <2>3, <2>4, <2>5, OneOp DEF InFlight
    <2>7. GensKept
        BY <1>4, SameGens
    <2> QED
        BY <1>2, <2>6, <2>7, KeptIInv
<1> QED
    BY <1>5

\* The worker hands the connection over or closes it.
LEMMA HandoffIInv ==
    ASSUME IInv, NEW o \in Op, Handoff(o)
    PROVE  IInv'
<1>1. TypeOK /\ Shape /\ Dials
    BY DEF IInv
<1>2. ops[o].worker = "handoff" /\ UNCHANGED <<closed, waitFor, index, sess>>
    BY DEF Handoff
<1>3. ops[o] \in Operation /\ ops[o].gen \in Gen
    BY <1>1, <1>2, OpFields DEF Shape, Dials
<1>4. CASE /\ ops[o].pc = "wait"
           /\ ops' = [ops EXCEPT ![o].worker = "none",
                                 ![o].pc = IF ops[o].conn = "open" THEN "body" ELSE "failing"]
           /\ gens' = [gens EXCEPT ![ops[o].gen].slot = FALSE]
    <2>1. [ops[o] EXCEPT !.worker = "none",
                         !.pc = IF ops[o].conn = "open" THEN "body" ELSE "failing"] \in Operation
        BY <1>3, Zenon DEF Operation
    <2>2. ops' \in [Op -> Operation]
        BY <1>1, <1>4, <2>1 DEF TypeOK
    <2>3. /\ ops'[o].pc = (IF ops[o].conn = "open" THEN "body" ELSE "failing")
          /\ ops'[o].gen = ops[o].gen
          /\ ops'[o].worker = "none" /\ ops'[o].conn = ops[o].conn
        BY <1>1, <1>3, <1>4 DEF TypeOK, Operation
    <2>4. \A p \in Op : p # o => ops'[p] = ops[p]
        BY <1>1, <1>4 DEF TypeOK
    <2>5. /\ ops'[o].pc \in InFlight <=> ops[o].pc \in InFlight
          /\ ops'[o].conn = "open" => ops'[o].worker = "handoff" \/ ops'[o].pc = "body"
          /\ ops'[o].worker # "none" => ops'[o].pc \in {"wait", "failing", "done"}
        BY <1>1, <1>2, <1>4, <2>3 DEF InFlight, Dials, ConnectionsOwned
    <2>6. OpsKept /\ Dials'
        BY <1>2, <1>3, <2>2, <2>3, <2>4, <2>5, OneOp DEF InFlight
    <2>7. GensKept
        BY <1>3, <1>4, SlotGensKept, Zenon
    <2> QED
        BY <1>2, <2>6, <2>7, KeptIInv
<1>5. CASE ops' = [ops EXCEPT ![o].worker = "none", ![o].conn = "none"]
         /\ gens' = [gens EXCEPT ![ops[o].gen].slot = FALSE]
    <2>1. [ops[o] EXCEPT !.worker = "none", !.conn = "none"] \in Operation
        BY <1>3, Zenon DEF Operation
    <2>2. ops' \in [Op -> Operation]
        BY <1>1, <1>5, <2>1 DEF TypeOK
    <2>3. /\ ops'[o].pc = ops[o].pc /\ ops'[o].gen = ops[o].gen
          /\ ops'[o].worker = "none" /\ ops'[o].conn = "none"
        BY <1>1, <1>3, <1>5 DEF TypeOK, Operation
    <2>4. \A p \in Op : p # o => ops'[p] = ops[p]
        BY <1>1, <1>5 DEF TypeOK
    <2>5. /\ ops'[o].pc \in InFlight <=> ops[o].pc \in InFlight
          /\ ops'[o].conn = "open" => ops'[o].worker = "handoff" \/ ops'[o].pc = "body"
          /\ ops'[o].worker # "none" => ops'[o].pc \in {"wait", "failing", "done"}
        BY <1>1, <1>2, <1>5, <2>3, SMTT(30) DEF InFlight, Dials, ConnectionsOwned
    <2>6. OpsKept /\ Dials'
        BY <1>2, <1>3, <2>2, <2>3, <2>4, <2>5, OneOp, SMTT(30) DEF InFlight
    <2>7. GensKept
        BY <1>3, <1>5, SlotGensKept, Zenon
    <2> QED
        BY <1>2, <2>6, <2>7, KeptIInv
<1> QED
    BY <1>4, <1>5 DEF Handoff, HandedNone

\* sdkContext: the worker goes on to the dial or hands its error over.
LEMMA WorkerContextIInv ==
    ASSUME IInv, NEW o \in Op, NEW built \in {"none", "open", "closed", "failed"},
           NEW w \in {"dial", "handoff"}, ops[o].worker = "context",
           gens' = [gens EXCEPT ![ops[o].gen].sdk = built],
           ops' = [ops EXCEPT ![o].worker = w], UNCHANGED <<closed, waitFor, index, sess>>
    PROVE  IInv'
<1>1. TypeOK /\ Shape /\ Dials
    BY DEF IInv
<1>2. ops[o].worker = "context" /\ UNCHANGED <<closed, waitFor, index, sess>>
    OBVIOUS
<1>3. ops[o] \in Operation /\ ops[o].gen \in Gen
    BY <1>1, <1>2, OpFields DEF Shape, Dials
<1>4. ops' = [ops EXCEPT ![o].worker = w]
         /\ gens' = [gens EXCEPT ![ops[o].gen].sdk = built]
    OBVIOUS
<1>5. IInv'
    <2>1. [ops[o] EXCEPT !.worker = w] \in Operation
        BY <1>3 DEF Operation
    <2>2. ops' \in [Op -> Operation]
        BY <1>1, <1>4, <2>1 DEF TypeOK
    <2>3. /\ ops'[o].pc = ops[o].pc /\ ops'[o].gen = ops[o].gen
          /\ ops'[o].worker = w /\ ops'[o].conn = ops[o].conn
        BY <1>1, <1>3, <1>4 DEF TypeOK, Operation
    <2>4. \A p \in Op : p # o => ops'[p] = ops[p]
        BY <1>1, <1>4 DEF TypeOK
    <2>5. /\ ops'[o].pc \in InFlight <=> ops[o].pc \in InFlight
          /\ ops'[o].conn = "open" => ops'[o].worker = "handoff" \/ ops'[o].pc = "body"
          /\ ops'[o].worker # "none" => ops'[o].pc \in {"wait", "failing", "done"}
        BY <1>1, <1>2, <1>4, <2>3 DEF InFlight, Dials, ConnectionsOwned
    <2>6. OpsKept /\ Dials'
        BY <1>2, <1>3, <2>2, <2>3, <2>4, <2>5, OneOp, SMTT(30) DEF InFlight
    <2>7. GensKept
        <3>1. gens[ops[o].gen] \in Generation
            BY <1>1, <1>3, GenFields
        <3>2. [gens[ops[o].gen] EXCEPT !.sdk = built] \in Generation
            BY <3>1 DEF Generation
        <3>3. gens' \in [Gen -> Generation]
            BY <1>1, <1>3, <1>4, <3>2 DEF TypeOK
        <3>4. /\ gens'[ops[o].gen].refs = gens[ops[o].gen].refs
              /\ gens'[ops[o].gen].binding = gens[ops[o].gen].binding
              /\ gens'[ops[o].gen].closing = gens[ops[o].gen].closing
              /\ \A h \in Gen : h # ops[o].gen => gens'[h] = gens[h]
            BY <1>1, <1>3, <1>4, <3>1, SMTT(30) DEF TypeOK, Generation
        <3> QED
            BY <1>3, <3>3, <3>4, OneGen
    <2> QED
        BY <1>2, <2>6, <2>7, KeptIInv
<1> QED
    BY <1>5

-----------------------------------------------------------------------------
(* Steps that take or give a reference. *)

\* release, for any holder: one reference less, and the last one withdraws the
\* generation from the index and makes its closing due.
LEMMA ReleaseFacts ==
    ASSUME IInv, NEW g \in Gen, gens[g].refs > 0, Release(g)
    PROVE  /\ gens' \in [Gen -> Generation] /\ index' \in [Binding -> Gen \cup {None}]
           /\ gens'[g].refs = gens[g].refs - 1 /\ gens'[g].binding = gens[g].binding
           /\ gens'[g].closing = "closed" => gens[g].closing = "closed"
           /\ gens[g].closing = "closed" => gens'[g].closing = "closed"
           /\ gens'[g].refs > 0 => gens'[g].closing = gens[g].closing
           /\ \A h \in Gen : h # g => gens'[h] = gens[h]
           /\ \A b \in Binding : index'[b] # None =>
                 /\ index'[b] = index[b]
                 /\ index[b] = g => gens[g].refs > 1
<1>1. TypeOK /\ Shape
    BY DEF IInv
<1>2. /\ index' = ReleasedIndex(g)
      /\ gens' = [gens EXCEPT ![g].refs = @ - 1, ![g].closing = ClosingAfter(g)]
    BY DEF Release
<1>3. /\ gens[g] \in Generation /\ gens[g].refs \in Nat
      /\ gens[g].binding \in Binding \cup {None}
    BY <1>1, GenFields
<1>4. /\ ClosingAfter(g) \in {"no", "due", "cancelled", "drained", "closed"}
      /\ ClosingAfter(g) = "closed" <=> gens[g].closing = "closed"
      /\ gens[g].refs > 1 => ClosingAfter(g) = gens[g].closing
    BY <1>3 DEF ClosingAfter, Generation
<1>5. [gens[g] EXCEPT !.refs = @ - 1, !.closing = ClosingAfter(g)] \in Generation
    <2>1. gens[g].refs - 1 \in Nat
        BY <1>3
    <2> QED
        BY <1>3, <1>4, <2>1, Zenon DEF Generation
<1>6. gens' \in [Gen -> Generation]
    BY <1>1, <1>2, <1>5 DEF TypeOK
<1>7. /\ gens'[g].refs = gens[g].refs - 1 /\ gens'[g].binding = gens[g].binding
      /\ gens'[g].closing = ClosingAfter(g)
    BY <1>1, <1>2, <1>3 DEF TypeOK, Generation
<1>8. \A h \in Gen : h # g => gens'[h] = gens[h]
    BY <1>1, <1>2 DEF TypeOK
<1>9. index' \in [Binding -> Gen \cup {None}]
    BY <1>1, <1>2, Zenon DEF TypeOK, ReleasedIndex
<1>10. ASSUME NEW b \in Binding, index'[b] # None
       PROVE  index'[b] = index[b] /\ (index[b] = g => gens[g].refs > 1)
    BY <1>1, <1>2, <1>3, <1>10 DEF TypeOK, Shape, ReleasedIndex
<1> QED
    BY <1>3, <1>4, <1>6, <1>7, <1>8, <1>9, <1>10, SMTT(30)

\* What remains to be shown of a step that releases a reference.
LEMMA ReleaseIInv ==
    ASSUME IInv, NEW g \in Gen, gens[g].refs > 0, Release(g), UNCHANGED <<closed, waitFor>>,
           sess' \in [Session -> [st : {"none", "open", "closed"}, gens : SUBSET Gen]],
           ops' \in [Op -> Operation], Counted', Dials',
           \A s \in Session : sess'[s].st = "none" => sess'[s].gens = {},
           \A o \in Op : ops'[o].pc # "none" => ops'[o].gen \in Gen
    PROVE  IInv'
<1>1. TypeOK /\ Shape /\ RetiredUnused /\ Awaited
    BY DEF IInv
<1>2. /\ gens' \in [Gen -> Generation] /\ index' \in [Binding -> Gen \cup {None}]
      /\ gens'[g].refs = gens[g].refs - 1 /\ gens'[g].binding = gens[g].binding
      /\ gens[g].closing = "closed" => gens'[g].closing = "closed"
      /\ gens'[g].refs > 0 => gens'[g].closing = gens[g].closing
      /\ \A h \in Gen : h # g => gens'[h] = gens[h]
      /\ \A b \in Binding : index'[b] # None =>
            /\ index'[b] = index[b]
            /\ index[b] = g => gens[g].refs > 1
    BY ReleaseFacts
<1>3. gens[g].refs \in Nat
    BY <1>1, GenFields
<1>4. TypeOK'
    BY <1>1, <1>2, SMTT(30) DEF TypeOK
<1>5. Shape'
    <2>1. \A h \in Gen : gens'[h].binding = None => gens'[h].refs = 0 /\ gens'[h].closing = "no"
        BY <1>1, <1>2, <1>3, SMTT(30) DEF Shape
    <2>2. ASSUME NEW b \in Binding, index'[b] # None
          PROVE  gens'[index'[b]].refs > 0 /\ gens'[index'[b]].binding = b
        <3>1. index[b] \in Gen /\ index'[b] = index[b]
              /\ gens[index[b]].refs > 0 /\ gens[index[b]].binding = b
            BY <1>1, <1>2, <2>2, SMTT(30) DEF TypeOK, Shape
        <3> QED
            BY <1>2, <1>3, <2>2, <3>1, SMTT(30)
    <2> QED
        BY <2>1, <2>2 DEF Shape
<1>6. RetiredUnused'
    BY <1>1, <1>2, <1>3 DEF RetiredUnused
<1>7. Awaited'
    BY <1>1, <1>2 DEF Awaited, Live
<1> QED
    BY <1>4, <1>5, <1>6, <1>7 DEF IInv

\* Session.Close releases what the handle holds, one generation at a time.
LEMMA CloseReleasesIInv ==
    ASSUME IInv, NEW s \in Session, NEW g \in Gen, CloseReleases(s, g)
    PROVE  IInv'
<1>1. TypeOK /\ Counted /\ Shape /\ Dials
    BY DEF IInv
<1>2. /\ sess[s].st = "closed" /\ g \in sess[s].gens /\ Release(g)
      /\ sess' = [sess EXCEPT ![s].gens = sess[s].gens \ {g}]
      /\ UNCHANGED <<closed, waitFor, ops>>
    BY DEF CloseReleases, HeldAfter
<1>3. s \in SessionsOf(g) /\ gens[g].refs > 0
    <2>1. s \in SessionsOf(g)
        BY <1>2 DEF SessionsOf
    <2> QED
        BY <1>1, <2>1, CountFacts
<1>4. sess' \in [Session -> [st : {"none", "open", "closed"}, gens : SUBSET Gen]]
    BY <1>1, <1>2 DEF TypeOK
<1>5. /\ sess'[s].gens = sess[s].gens \ {g} /\ sess'[s].st = "closed"
      /\ \A t \in Session : t # s => sess'[t] = sess[t]
    BY <1>1, <1>2 DEF TypeOK
<1>6. /\ gens'[g].refs = gens[g].refs - 1
      /\ \A h \in Gen : h # g => gens'[h] = gens[h]
    BY <1>2, <1>3, ReleaseFacts
<1>7. Counted'
    <2> SUFFICES ASSUME NEW h \in Gen
                 PROVE  /\ IsFiniteSet(SessionsOf(h)') /\ IsFiniteSet(OpsOf(h)')
                        /\ gens'[h].refs = Holders(h)'
        BY DEF Counted
    <2>1. OpsOf(h)' = OpsOf(h)
        BY <1>2 DEF OpsOf
    <2>2. CASE h = g
        <3>1. SessionsOf(g)' = SessionsOf(g) \ {s}
            BY <1>5 DEF SessionsOf
        <3> QED
            BY <1>1, <1>3, <1>6, <2>1, <2>2, <3>1, SessionRemoved, Zenon
    <2>3. CASE h # g
        <3>1. SessionsOf(h)' = SessionsOf(h)
            BY <1>5, <2>3 DEF SessionsOf
        <3> QED
            BY <1>1, <1>6, <2>1, <2>3, <3>1, SameCount
    <2> QED
        BY <2>2, <2>3
<1>8. Dials'
    BY <1>1, <1>2 DEF Dials, ConnectionsOwned
<1>9. /\ ops' \in [Op -> Operation]
      /\ \A o \in Op : ops'[o].pc # "none" => ops'[o].gen \in Gen
    BY <1>1, <1>2, SMTT(30) DEF TypeOK, Shape
<1>10. \A t \in Session : sess'[t].st = "none" => sess'[t].gens = {}
    BY <1>1, <1>5 DEF Shape
<1> QED
    BY <1>2, <1>3, <1>4, <1>7, <1>8, <1>9, <1>10, ReleaseIInv

\* The operation's release, after an error or with the response's body.
LEMMA FinishIInv ==
    ASSUME IInv, NEW o \in Op, Finish(o)
    PROVE  IInv'
<1>1. TypeOK /\ Counted /\ Shape /\ Dials
    BY DEF IInv
<1> DEFINE g == ops[o].gen
<1>2. /\ ops[o].pc \in {"failing", "body"} /\ Release(g)
      /\ ops' = [ops EXCEPT ![o].pc = "done", ![o].cancelled = TRUE,
                            ![o].conn = IF ops[o].pc = "body" THEN "none" ELSE @]
      /\ UNCHANGED <<closed, waitFor, sess>>
    BY DEF Finish
<1>3. ops[o] \in Operation /\ g \in Gen
    BY <1>1, <1>2, OpFields DEF Shape
<1>4. [ops[o] EXCEPT !.pc = "done", !.cancelled = TRUE,
                     !.conn = IF ops[o].pc = "body" THEN "none" ELSE @] \in Operation
    BY <1>3, Zenon DEF Operation
<1>5. ops' \in [Op -> Operation]
    BY <1>1, <1>2, <1>4 DEF TypeOK
<1>6. /\ ops'[o].pc = "done" /\ ops'[o].gen = g /\ ops'[o].worker = ops[o].worker
      /\ ops'[o].conn = "open" => ops[o].conn = "open" /\ ops[o].pc # "body"
    BY <1>1, <1>2, <1>3 DEF TypeOK, Operation
<1>7. \A p \in Op : p # o => ops'[p] = ops[p]
    BY <1>1, <1>2 DEF TypeOK
<1>8. o \in OpsOf(g) /\ gens[g].refs > 0
    <2>1. o \in OpsOf(g)
        BY <1>2 DEF OpsOf, InFlight
    <2> QED
        BY <1>1, <1>3, <2>1, CountFacts
<1>9. /\ gens'[g].refs = gens[g].refs - 1
      /\ \A h \in Gen : h # g => gens'[h] = gens[h]
    BY <1>2, <1>3, <1>8, ReleaseFacts
<1>10. Counted'
    <2> SUFFICES ASSUME NEW h \in Gen
                 PROVE  /\ IsFiniteSet(SessionsOf(h)') /\ IsFiniteSet(OpsOf(h)')
                        /\ gens'[h].refs = Holders(h)'
        BY DEF Counted
    <2>1. SessionsOf(h)' = SessionsOf(h)
        BY <1>2, SMTT(30) DEF SessionsOf
    <2>2. CASE h = g
        <3>1. OpsOf(h)' = OpsOf(h) \ {o}
            BY <1>6, <1>7, <2>2 DEF OpsOf, InFlight
        <3> QED
            BY <1>1, <1>8, <1>9, <2>1, <2>2, <3>1, OpRemoved, Zenon
    <2>3. CASE h # g
        <3>1. OpsOf(h)' = OpsOf(h)
            BY <1>6, <1>7, <2>3 DEF OpsOf
        <3> QED
            BY <1>1, <1>9, <2>1, <2>3, <3>1, SameCount
    <2> QED
        BY <2>2, <2>3
<1>11. Dials'
    BY <1>1, <1>6, <1>7 DEF Dials, ConnectionsOwned
<1>12. /\ sess' \in [Session -> [st : {"none", "open", "closed"}, gens : SUBSET Gen]]
       /\ \A t \in Session : sess'[t].st = "none" => sess'[t].gens = {}
    BY <1>1, <1>2 DEF TypeOK, Shape
<1>13. \A p \in Op : ops'[p].pc # "none" => ops'[p].gen \in Gen
    BY <1>1, <1>3, <1>6, <1>7 DEF Shape
<1> QED
    BY <1>2, <1>3, <1>5, <1>8, <1>10, <1>11, <1>12, <1>13, ReleaseIInv, SMTT(30)

\* acquireOperation: a reference is added to one that exists, or none at all.
LEMMA AcquireIInv ==
    ASSUME IInv, NEW o \in Op, Acquire(o)
    PROVE  IInv'
<1>1. TypeOK /\ Counted /\ Shape /\ RetiredUnused /\ Dials /\ Awaited
    BY DEF IInv
<1> DEFINE g == ops[o].gen
<1>2. ops[o].pc = "bound" /\ UNCHANGED <<closed, waitFor, index, sess>>
    BY DEF Acquire
<1>3. ops[o] \in Operation /\ g \in Gen
    BY <1>1, <1>2, OpFields DEF Shape
<1>4. gens[g] \in Generation /\ gens[g].refs \in Nat
    BY <1>1, <1>3, GenFields
<1>5. CASE closed \/ gens[g].refs = 0
    <2>1. ops' = [ops EXCEPT ![o].pc = "done"] /\ UNCHANGED gens
        BY <1>5 DEF Acquire
    <2>2. [ops[o] EXCEPT !.pc = "done"] \in Operation
        BY <1>3 DEF Operation
    <2>3. ops' \in [Op -> Operation]
        BY <1>1, <2>1, <2>2 DEF TypeOK
    <2>4. /\ ops'[o].pc = "done" /\ ops'[o].gen = ops[o].gen
          /\ ops'[o].worker = ops[o].worker /\ ops'[o].conn = ops[o].conn
          /\ \A p \in Op : p # o => ops'[p] = ops[p]
        BY <1>1, <1>3, <2>1, SMTT(30) DEF TypeOK, Operation
    <2>5. OpsKept /\ Dials'
        BY <1>1, <1>2, <1>3, <2>3, <2>4, OneOp DEF InFlight, Dials, ConnectionsOwned
    <2>6. GensKept
        BY <2>1, SameGens
    <2> QED
        BY <1>2, <2>5, <2>6, KeptIInv
<1>6. CASE ~(closed \/ gens[g].refs = 0)
    <2>1. /\ ops' = [ops EXCEPT ![o].pc = "held"]
          /\ gens' = [gens EXCEPT ![g].refs = @ + 1]
        BY <1>6 DEF Acquire
    <2>2. [ops[o] EXCEPT !.pc = "held"] \in Operation
        BY <1>3 DEF Operation
    <2>3. ops' \in [Op -> Operation]
        BY <1>1, <2>1, <2>2 DEF TypeOK
    <2>4. /\ ops'[o].pc = "held" /\ ops'[o].gen = g
          /\ ops'[o].worker = ops[o].worker /\ ops'[o].conn = ops[o].conn
          /\ \A p \in Op : p # o => ops'[p] = ops[p]
        BY <1>1, <1>3, <2>1, SMTT(30) DEF TypeOK, Operation
    <2>5. [gens[g] EXCEPT !.refs = @ + 1] \in Generation
        BY <1>4 DEF Generation
    <2>6. gens' \in [Gen -> Generation]
        BY <1>1, <1>3, <2>1, <2>5 DEF TypeOK
    <2>7. /\ gens'[g].refs = gens[g].refs + 1 /\ gens'[g].binding = gens[g].binding
          /\ gens'[g].closing = gens[g].closing
          /\ \A h \in Gen : h # g => gens'[h] = gens[h]
        BY <1>1, <1>3, <1>4, <2>1 DEF TypeOK, Generation
    <2>8. TypeOK'
        BY <1>1, <1>2, <2>3, <2>6, SMTT(30) DEF TypeOK
    <2>9. Counted'
        <3> SUFFICES ASSUME NEW h \in Gen
                     PROVE  /\ IsFiniteSet(SessionsOf(h)') /\ IsFiniteSet(OpsOf(h)')
                            /\ gens'[h].refs = Holders(h)'
            BY DEF Counted
        <3>1. SessionsOf(h)' = SessionsOf(h)
            BY <1>2, SMTT(30) DEF SessionsOf
        <3>2. CASE h = g
            <4>1. OpsOf(h)' = OpsOf(h) \cup {o} /\ o \notin OpsOf(h)
                BY <1>2, <2>4, <3>2 DEF OpsOf, InFlight
            <4> QED
                BY <1>1, <2>7, <3>1, <3>2, <4>1, OpAdded, Zenon
        <3>3. CASE h # g
            <4>1. OpsOf(h)' = OpsOf(h)
                BY <2>4, <3>3, SMTT(30) DEF OpsOf
            <4> QED
                BY <1>1, <2>7, <3>1, <3>3, <4>1, SameCount
        <3> QED
            BY <3>2, <3>3
    <2>10. Shape'
        <3>1. \A h \in Gen : gens'[h].binding = None => gens'[h].refs = 0 /\ gens'[h].closing = "no"
            <4>1. gens[g].binding # None
                BY <1>1, <1>3, <1>6, SMTT(30) DEF Shape
            <4> QED
                BY <1>1, <2>7, <4>1, SMTT(30) DEF Shape
        <3>2. ASSUME NEW b \in Binding, index[b] # None
              PROVE  gens'[index[b]].refs > 0 /\ gens'[index[b]].binding = b
            <4>1. index[b] \in Gen /\ gens[index[b]].refs > 0 /\ gens[index[b]].binding = b
                BY <1>1, <3>2 DEF TypeOK, Shape
            <4> QED
                BY <1>4, <2>7, <4>1, SMTT(30)
        <3>3. \A p \in Op : ops'[p].pc # "none" => ops'[p].gen \in Gen
            BY <1>1, <1>3, <2>4, SMTT(30) DEF Shape
        <3> QED
            BY <1>1, <1>2, <3>1, <3>2, <3>3, SMTT(30) DEF Shape
    <2>11. RetiredUnused'
        BY <1>1, <1>2, <1>4, <1>6, <2>7, SMTT(30) DEF RetiredUnused
    <2>12. Dials' /\ Awaited'
        BY <1>1, <1>2, <1>6, <2>4 DEF Dials, ConnectionsOwned, Awaited
    <2> QED
        BY <2>8, <2>9, <2>10, <2>11, <2>12, SMTT(30) DEF IInv
<1> QED
    BY <1>5, <1>6

\* Manager.Close makes every closing due and waits for all that is alive.
LEMMA CloseManagerIInv ==
    ASSUME IInv, CloseManager
    PROVE  IInv'
<1>1. TypeOK /\ Counted /\ Shape /\ Dials
    BY DEF IInv
<1>2. /\ closed' = TRUE /\ waitFor' = Live /\ UNCHANGED <<index, sess, ops>>
      /\ gens' = [g \in Gen |-> IF g \in Live /\ gens[g].closing = "no"
                                THEN [gens[g] EXCEPT !.closing = "due"] ELSE gens[g]]
    BY DEF CloseManager
<1>3. ASSUME NEW g \in Gen
      PROVE  /\ gens'[g] \in Generation
             /\ gens'[g].refs = gens[g].refs /\ gens'[g].binding = gens[g].binding
             /\ gens[g].closing = "closed" => gens'[g].closing = "closed"
             /\ gens[g].binding = None => gens'[g] = gens[g]
    <2>1. gens[g] \in Generation
        BY <1>1, GenFields
    <2>2. CASE g \in Live /\ gens[g].closing = "no"
        <3>1. gens'[g] = [gens[g] EXCEPT !.closing = "due"] /\ gens[g].binding # None
            BY <1>2, <2>2 DEF Live
        <3>2. gens'[g] \in Generation
            BY <2>1, <3>1 DEF Generation
        <3>3. gens'[g].refs = gens[g].refs /\ gens'[g].binding = gens[g].binding
            BY <2>1, <3>1 DEF Generation
        <3> QED
            BY <2>2, <3>1, <3>2, <3>3
    <2>3. CASE ~(g \in Live /\ gens[g].closing = "no")
        <3>1. gens'[g] = gens[g]
            BY <1>2, <2>3
        <3> QED
            BY <2>1, <3>1
    <2> QED
        BY <2>2, <2>3
<1>4. TypeOK'
    <2>1. gens' \in [Gen -> Generation]
        BY <1>2, <1>3
    <2>2. Live \subseteq Gen
        BY SMTT(30) DEF Live
    <2> QED
        BY <1>1, <1>2, <2>1, <2>2 DEF TypeOK
<1>5. Counted'
    <2>1. \A g \in Gen : SessionsOf(g)' = SessionsOf(g) /\ OpsOf(g)' = OpsOf(g)
        BY <1>2 DEF SessionsOf, OpsOf
    <2> QED
        BY <1>1, <1>3, <2>1, SameCount DEF Counted
<1>6. Shape'
    <2>1. \A b \in Binding : index[b] # None =>
              gens'[index[b]].refs > 0 /\ gens'[index[b]].binding = b
        BY <1>1, <1>3, SMTT(20) DEF TypeOK, Shape
    <2>2. ASSUME NEW g \in Gen, gens'[g].binding = None
          PROVE  gens'[g].refs = 0 /\ gens'[g].closing = "no"
        <3>1. gens[g].binding = None /\ gens'[g] = gens[g]
            BY <1>3, <2>2
        <3> QED
            BY <1>1, <3>1 DEF Shape
    <2> QED
        BY <1>1, <1>2, <2>1, <2>2, Zenon DEF Shape
<1>7. RetiredUnused' /\ Dials'
    BY <1>1, <1>2 DEF RetiredUnused, Dials, ConnectionsOwned
<1>8. Awaited'
    BY <1>2, <1>3 DEF Awaited, Live
<1> QED
    BY <1>4, <1>5, <1>6, <1>7, <1>8 DEF IInv

-----------------------------------------------------------------------------
(* The theorems. *)

\* The manager starts with nothing captured.
LEMMA InitIInv == Init => IInv
<1> SUFFICES ASSUME Init
             PROVE  IInv
    OBVIOUS
<1>1. NewGen \in Generation /\ NewOp \in Operation
    BY DEF NewGen, NewOp, Generation, Operation
<1>2. TypeOK
    BY <1>1, Zenon DEF Init, TypeOK
<1>3. Counted
    <2> SUFFICES ASSUME NEW g \in Gen
                 PROVE  /\ IsFiniteSet(SessionsOf(g)) /\ IsFiniteSet(OpsOf(g))
                        /\ gens[g].refs = Holders(g)
        BY DEF Counted
    <2>1. SessionsOf(g) = {} /\ OpsOf(g) = {}
        BY DEF Init, SessionsOf, OpsOf, NewOp
    <2>2. gens[g].refs = 0
        BY DEF Init, NewGen
    <2>3. IsFiniteSet({}) /\ Cardinality({}) = 0
        BY FS_EmptySet
    <2> QED
        BY <2>1, <2>2, <2>3 DEF Holders
<1>4. Shape /\ RetiredUnused
    BY DEF Init, Shape, RetiredUnused, NewGen, NewOp
<1>5. Dials /\ Awaited
    BY DEF Init, Dials, ConnectionsOwned, Awaited, NewOp
<1> QED
    BY <1>2, <1>3, <1>4, <1>5 DEF IInv

\* Every step of the manager, its sessions, operations and workers.
LEMMA NextIInv == IInv /\ [Next]_vars => IInv'
<1> SUFFICES ASSUME IInv, [Next]_vars
             PROVE  IInv'
    OBVIOUS
<1>1. ASSUME NEW s \in Session, NEW B \in Captures, Load(s, B)
      PROVE  IInv'
    BY <1>1, LoadIInv
<1>2. ASSUME NEW s \in Session, NEW t \in Session, Retain(s, t)
      PROVE  IInv'
    BY <1>2, RetainIInv
<1>3. ASSUME NEW s \in Session, Close(s)
      PROVE  IInv'
    BY <1>3, CloseIInv
<1>4. ASSUME NEW s \in Session, NEW g \in Gen, CloseReleases(s, g)
      PROVE  IInv'
    BY <1>4, CloseReleasesIInv
<1>5. ASSUME NEW g \in Gen, Retirement(g)
      PROVE  IInv'
    BY <1>5, StartCloseIInv, DrainPoolsIInv, ShutdownIInv DEF Retirement
<1>6. CASE CloseManager
    BY <1>6, CloseManagerIInv
<1>7. ASSUME NEW o \in Op, NEW s \in Session, NEW g \in Gen, Transport(o, s, g)
      PROVE  IInv'
    BY <1>7, TransportIInv
<1>8. ASSUME NEW o \in Op, Caller(o)
      PROVE  IInv'
    BY <1>8, AcquireIInv, RegisterIInv, TakeSlotIInv, TakeDialIInv, GiveUpIInv, FinishIInv, Zenon DEF Caller
<1>9. ASSUME NEW o \in Op, Cancel(o)
      PROVE  IInv'
    BY <1>9, CancelIInv
<1>10. ASSUME NEW o \in Op, WorkerContext(o)
       PROVE  IInv'
    <2>1. TypeOK /\ Shape /\ Dials
        BY DEF IInv
    <2>2. ops[o].gen \in Gen
        BY <1>10, <2>1 DEF WorkerContext, Shape, Dials
    <2>3. gens[ops[o].gen].sdk \in {"none", "open", "closed", "failed"}
        BY <2>1, <2>2, SMTT(30) DEF TypeOK, Generation
    <2>4. PICK built \in {"none", "open", "closed", "failed"}, w \in {"dial", "handoff"} :
            /\ gens' = [gens EXCEPT ![ops[o].gen].sdk = built]
            /\ ops' = [ops EXCEPT ![o].worker = w]
        BY <1>10, <2>3, Zenon DEF WorkerContext
    <2>5. ops[o].worker = "context" /\ UNCHANGED <<closed, waitFor, index, sess>>
        BY <1>10 DEF WorkerContext
    <2> QED
        BY <2>4, <2>5, WorkerContextIInv, Zenon
<1>11. ASSUME NEW o \in Op, WorkerDial(o)
       PROVE  IInv'
    BY <1>11, WorkerDialIInv, Zenon DEF WorkerDial
<1>12. ASSUME NEW o \in Op, Handoff(o)
       PROVE  IInv'
    BY <1>12, HandoffIInv
<1>13. CASE UNCHANGED vars
    <2>1. UNCHANGED <<closed, waitFor, index, sess>> /\ UNCHANGED gens /\ UNCHANGED ops
        BY <1>13 DEF vars
    <2> QED
        BY <2>1, SameOps, SameGens, KeptIInv
<1> QED
    BY <1>1, <1>2, <1>3, <1>4, <1>5, <1>6, <1>7, <1>8, <1>9, <1>10, <1>11, <1>12, <1>13, SMTT(30) DEF Next

\* Reference counts are exact, the index leads to referenced generations of the
\* binding, and everything else the invariant says, always (manager.go,
\* transport.go).
THEOREM UpstreamInvariant == Spec => []IInv
<1> QED
    BY InitIInv, NextIInv, PTL DEF Spec

\* A generation that a session or an operation in flight holds is not being
\* retired while the manager is open (manager.go Load, retain, release;
\* transport.go RoundTrip), for any number of sessions and operations.
THEOREM HeldNeverRetired == Spec => []HeldNotRetired
<1>1. IInv => HeldNotRetired
    BY CountFacts DEF IInv, Counted, RetiredUnused, HeldNotRetired
<1> QED
    BY <1>1, UpstreamInvariant, PTL

\* A connection always has an owner that will close it (manager.go dial).
THEOREM NoConnectionLeaks == Spec => []ConnectionsOwned
<1>1. IInv => ConnectionsOwned
    BY DEF IInv, Dials
<1> QED
    BY <1>1, UpstreamInvariant, PTL

\* When what Manager.Close waits for is closed, nothing is alive, whatever was
\* captured before it (manager.go Close, Load).
THEOREM CloseIsComplete == Spec => []CloseWaitsForAll
<1>1. IInv => CloseWaitsForAll
    BY DEF IInv, Awaited, CloseWaitsForAll, Live
<1> QED
    BY <1>1, UpstreamInvariant, PTL
=============================================================================
