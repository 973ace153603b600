-------------------------- MODULE CompatChainProofs --------------------------
(***************************************************************************)
(* Proofs about CompatChain: what a check that compares neighbours         *)
(* promises about every earlier release, for all names and descriptors.    *)
(***************************************************************************)
EXTENDS CompatChain, TLAPS

\* A released field is there with its shape, or its number is reserved; a
\* reserved enum number is still reserved.
FieldsAccountedFor ==
    \A p \in known.shapes :
        /\ p[1] \in DOMAIN baseline.messages
        /\ \/ /\ p[2] \in Fields(baseline.messages[p[1]])
              /\ Shape(baseline.messages[p[1]].fields[p[2]]) = p[3]
           \/ p[2] \in ReservedNumbers(baseline.messages[p[1]])

RetiredStillReserved ==
    \A p \in known.retired :
        /\ p[1] \in DOMAIN baseline.enums
        /\ p[2] \in EnumReservedNumbers(baseline.enums[p[1]])

\* Every message of a schema is one that protoc accepts.
LEMMA SchemaMessages ==
    ASSUME NEW s \in Schemas, NEW m \in DOMAIN s.messages
    PROVE  s.messages[m] \in MessageDescs
BY DEF Schemas, Named

LEMMA SchemaEnums ==
    ASSUME NEW s \in Schemas, NEW e \in DOMAIN s.enums
    PROVE  s.enums[e] \in EnumDescs
BY DEF Schemas, Named

\* The code's reading of reserved ranges is protoc's: no field, and no enum
\* value, has a number it reads as reserved.
LEMMA NoFieldReserved ==
    ASSUME NEW s \in Schemas, NEW m \in DOMAIN s.messages
    PROVE  Fields(s.messages[m]) \cap ReservedNumbers(s.messages[m]) = {}
<1>1. s.messages[m] \in MessageDescs  BY SchemaMessages
<1>2. ReservedNumbers(s.messages[m]) = ReservedAsWritten(s.messages[m])
  BY DEF ReservedNumbers, ReservedAsWritten
<1>3. \A n \in Fields(s.messages[m]) : n \notin ReservedAsWritten(s.messages[m])
  BY <1>1, ProtocAccepts
<1> QED  BY <1>2, <1>3

LEMMA NoValueReserved ==
    ASSUME NEW s \in Schemas, NEW e \in DOMAIN s.enums,
           NEW v \in DOMAIN s.enums[e].values
    PROVE  s.enums[e].values[v] \notin EnumReservedNumbers(s.enums[e])
<1>1. s.enums[e] \in EnumDescs  BY SchemaEnums
<1>2. EnumReservedNumbers(s.enums[e]) = EnumReservedAsWritten(s.enums[e])
  BY DEF EnumReservedNumbers, EnumReservedAsWritten
<1> QED  BY <1>1, <1>2, ProtocAccepts

\* A green check keeps every field's shape or reserves its number, and keeps
\* every reservation.
LEMMA GreenMessage ==
    ASSUME NEW was, NEW now, MessageFindings(was, now) = {}
    PROVE  /\ \A n \in Fields(was) :
                 \/ n \in Fields(now) /\ Shape(now.fields[n]) = Shape(was.fields[n])
                 \/ n \in ReservedNumbers(now)
           /\ ReservedNumbers(was) \subseteq ReservedNumbers(now)
<1>1. \A n \in Fields(was) : ~FieldBroken(was, now, n)
  <2> SUFFICES ASSUME NEW n \in Fields(was), FieldBroken(was, now, n)
               PROVE  FALSE
    OBVIOUS
  <2>1. <<"field", n>> \in MessageFindings(was, now)
    BY DEF MessageFindings
  <2> QED  BY <2>1
<1>2. ReservedNumbers(was) \subseteq ReservedNumbers(now)
  <2> SUFFICES ASSUME NEW n \in ReservedNumbers(was), n \notin ReservedNumbers(now)
               PROVE  FALSE
    OBVIOUS
  <2>1. <<"number", n>> \in Dropped(was, now, ReservedNumbers(was), ReservedNumbers(now))
    BY DEF Dropped
  <2> QED  BY <2>1 DEF MessageFindings
<1> QED  BY <1>1, <1>2 DEF FieldBroken, Shape

LEMMA GreenEnum ==
    ASSUME NEW was, NEW now, EnumFindings(was, now) = {}
    PROVE  EnumReservedNumbers(was) \subseteq EnumReservedNumbers(now)
<1> SUFFICES ASSUME NEW n \in EnumReservedNumbers(was), n \notin EnumReservedNumbers(now)
             PROVE  FALSE
  OBVIOUS
<1>1. <<"number", n>> \in
          Dropped(was, now, EnumReservedNumbers(was), EnumReservedNumbers(now))
  BY DEF Dropped
<1> QED  BY <1>1 DEF EnumFindings

LEMMA GreenService ==
    ASSUME NEW was, NEW now, ServiceFindings(was, now) = {}
    PROVE  \A m \in DOMAIN was.methods :
               m \in DOMAIN now.methods
                 /\ Signature(now.methods[m]) = Signature(was.methods[m])
<1> SUFFICES ASSUME NEW m \in DOMAIN was.methods, MethodBroken(was, now, m)
             PROVE  FALSE
  BY DEF MethodBroken
<1>1. <<"method", m>> \in ServiceFindings(was, now)  BY DEF ServiceFindings
<1> QED  BY <1>1

-----------------------------------------------------------------------------
(* Every schema ever released, and what the checker reads of it, is well     *)
(* formed (incompatibilities, _reserved_numbers).                            *)
THEOREM TypeCorrect == Spec => []TypeOK
<1>1. Init => TypeOK
  BY NoFieldReserved DEF Init, TypeOK, Promises
<1>2. TypeOK /\ [Next]_vars => TypeOK'
  <2> SUFFICES ASSUME TypeOK, [Next]_vars
               PROVE  TypeOK'
    OBVIOUS
  <2>1. ASSUME NEW next \in Schemas, Release(next)
        PROVE  TypeOK'
    BY <2>1, NoFieldReserved DEF Release, TypeOK
  <2>2. CASE UNCHANGED vars
    BY <2>2 DEF TypeOK, vars
  <2> QED  BY <2>1, <2>2 DEF Next
<1> QED  BY <1>1, <1>2, PTL DEF Spec

\* The shapes a schema promises are accounted for by itself.
LEMMA OwnShapes ==
    ASSUME NEW s \in Schemas, NEW p \in ShapesOf(s)
    PROVE  /\ p[1] \in DOMAIN s.messages
           /\ p[2] \in Fields(s.messages[p[1]])
           /\ Shape(s.messages[p[1]].fields[p[2]]) = p[3]
BY DEF ShapesOf

LEMMA OwnRetired ==
    ASSUME NEW s \in Schemas, NEW p \in RetiredOf(s)
    PROVE  p[1] \in DOMAIN s.enums /\ p[2] \in EnumReservedNumbers(s.enums[p[1]])
BY DEF RetiredOf, EnumReservedAsWritten, EnumReservedNumbers

LEMMA OwnSignatures ==
    ASSUME NEW s \in Schemas, NEW p \in SignaturesOf(s)
    PROVE  /\ p[1] \in DOMAIN s.services
           /\ p[2] \in DOMAIN s.services[p[1]].methods
           /\ Signature(s.services[p[1]].methods[p[2]]) = p[3]
BY DEF SignaturesOf

(* Reserve-then-reuse is impossible over any chain of green checks: a number *)
(* released once never decodes as something else (incompatibilities with     *)
(* _dropped_reservations).                                                   *)
THEOREM NumbersStable == Spec => []NumbersKeepTheirShape
<1>1. Init => FieldsAccountedFor
  BY OwnShapes DEF Init, FieldsAccountedFor, Promises
<1>2. TypeOK /\ FieldsAccountedFor /\ [Next]_vars => FieldsAccountedFor'
  <2> SUFFICES ASSUME TypeOK, FieldsAccountedFor, [Next]_vars
               PROVE  FieldsAccountedFor'
    OBVIOUS
  <2>1. ASSUME NEW next \in Schemas, Release(next)
        PROVE  FieldsAccountedFor'
    <3> SUFFICES ASSUME NEW p \in known'.shapes
                 PROVE  /\ p[1] \in DOMAIN next.messages
                        /\ \/ /\ p[2] \in Fields(next.messages[p[1]])
                              /\ Shape(next.messages[p[1]].fields[p[2]]) = p[3]
                           \/ p[2] \in ReservedNumbers(next.messages[p[1]])
      BY <2>1 DEF Release, FieldsAccountedFor
    <3>1. CASE p \in ShapesOf(next)
      BY <3>1, OwnShapes
    <3>2. CASE p \in known.shapes
      <4>1. /\ p[1] \in DOMAIN baseline.messages
            /\ \/ /\ p[2] \in Fields(baseline.messages[p[1]])
                  /\ Shape(baseline.messages[p[1]].fields[p[2]]) = p[3]
               \/ p[2] \in ReservedNumbers(baseline.messages[p[1]])
        BY <3>2 DEF FieldsAccountedFor
      <4>2. /\ p[1] \in DOMAIN next.messages
            /\ MessageFindings(baseline.messages[p[1]], next.messages[p[1]]) = {}
        BY <2>1, <4>1 DEF Release, Compatible
      <4> QED  BY <4>1, <4>2, GreenMessage
    <3> QED  BY <2>1, <3>1, <3>2 DEF Release
  <2>2. CASE UNCHANGED vars
    BY <2>2 DEF FieldsAccountedFor, vars
  <2> QED  BY <2>1, <2>2 DEF Next
<1>3. TypeOK /\ FieldsAccountedFor => NumbersKeepTheirShape
  BY DEF TypeOK, FieldsAccountedFor, NumbersKeepTheirShape
<1> QED  BY <1>1, <1>2, <1>3, TypeCorrect, PTL DEF Spec

(* A reserved enum number stays unused over any chain of green checks        *)
(* (_enum_reserved_numbers reads the inclusive end of a range).              *)
THEOREM RetiredUnused == Spec => []RetiredStayUnused
<1>1. Init => RetiredStillReserved
  BY OwnRetired DEF Init, RetiredStillReserved, Promises
<1>2. TypeOK /\ RetiredStillReserved /\ [Next]_vars => RetiredStillReserved'
  <2> SUFFICES ASSUME TypeOK, RetiredStillReserved, [Next]_vars
               PROVE  RetiredStillReserved'
    OBVIOUS
  <2>1. ASSUME NEW next \in Schemas, Release(next)
        PROVE  RetiredStillReserved'
    <3> SUFFICES ASSUME NEW p \in known'.retired
                 PROVE  /\ p[1] \in DOMAIN next.enums
                        /\ p[2] \in EnumReservedNumbers(next.enums[p[1]])
      BY <2>1 DEF Release, RetiredStillReserved
    <3>1. CASE p \in RetiredOf(next)
      BY <3>1, OwnRetired
    <3>2. CASE p \in known.retired
      <4>1. /\ p[1] \in DOMAIN baseline.enums
            /\ p[2] \in EnumReservedNumbers(baseline.enums[p[1]])
        BY <3>2 DEF RetiredStillReserved
      <4>2. /\ p[1] \in DOMAIN next.enums
            /\ EnumFindings(baseline.enums[p[1]], next.enums[p[1]]) = {}
        BY <2>1, <4>1 DEF Release, Compatible
      <4> QED  BY <4>1, <4>2, GreenEnum
    <3> QED  BY <2>1, <3>1, <3>2 DEF Release
  <2>2. CASE UNCHANGED vars
    BY <2>2 DEF RetiredStillReserved, vars
  <2> QED  BY <2>1, <2>2 DEF Next
<1>3. TypeOK /\ RetiredStillReserved => RetiredStayUnused
  BY NoValueReserved DEF TypeOK, RetiredStillReserved, RetiredStayUnused
<1> QED  BY <1>1, <1>2, <1>3, TypeCorrect, PTL DEF Spec

(* A method that any release offered is still offered, with the types of its *)
(* request and response.                                                     *)
THEOREM SignaturesStable == Spec => []SignaturesKept
<1>1. Init => SignaturesKept
  BY OwnSignatures DEF Init, SignaturesKept, Promises
<1>2. SignaturesKept /\ [Next]_vars => SignaturesKept'
  <2> SUFFICES ASSUME SignaturesKept, [Next]_vars
               PROVE  SignaturesKept'
    OBVIOUS
  <2>1. ASSUME NEW next \in Schemas, Release(next)
        PROVE  SignaturesKept'
    <3> SUFFICES ASSUME NEW p \in known'.signatures
                 PROVE  /\ p[1] \in DOMAIN next.services
                        /\ p[2] \in DOMAIN next.services[p[1]].methods
                        /\ Signature(next.services[p[1]].methods[p[2]]) = p[3]
      BY <2>1 DEF Release, SignaturesKept
    <3>1. CASE p \in SignaturesOf(next)
      BY <3>1, OwnSignatures
    <3>2. CASE p \in known.signatures
      <4>1. /\ p[1] \in DOMAIN baseline.services
            /\ p[2] \in DOMAIN baseline.services[p[1]].methods
            /\ Signature(baseline.services[p[1]].methods[p[2]]) = p[3]
        BY <3>2 DEF SignaturesKept
      <4>2. /\ p[1] \in DOMAIN next.services
            /\ ServiceFindings(baseline.services[p[1]], next.services[p[1]]) = {}
        BY <2>1, <4>1 DEF Release, Compatible
      <4> QED  BY <4>1, <4>2, GreenService
    <3> QED  BY <2>1, <3>1, <3>2 DEF Release
  <2>2. CASE UNCHANGED vars
    BY <2>2 DEF SignaturesKept, vars
  <2> QED  BY <2>1, <2>2 DEF Next
<1> QED  BY <1>1, <1>2, PTL DEF Spec
=============================================================================
